---- MODULE Spec2Model ----
(***************************************************************************)
(* Model of the HoopHead governed access layer: the tiered key manager     *)
(* (backend/src/adapters/external/auth_manager.py) and the request path of *)
(* the provider client that uses it (ball_dont_lie_client.py).             *)
(***************************************************************************)
EXTENDS Integers, Sequences, FiniteSets, TLC

\* ------------------------------------------------------------------------
\* Bounds of the exploration (not program constants)
\* ------------------------------------------------------------------------
\* value of time.time() when the manager is constructed
T0 == 1000
\* seconds the clock may advance past T0 in the key-manager specification
MaxElapsed == 60
\* requests the registered keys together may hold recorded in the
\* key-manager specification
MaxRequests == 1
\* seconds the clock may advance past T0 in the burst specification
BurstElapsed == 60
\* requests the key may record in the burst specification
MaxBurst == 102
\* seconds the clock may advance past T0 in the sequential-caller specification
SeqElapsed == 120
\* calls the sequential caller may make
SeqCalls == 13
\* requests that may be started in the client specification
MaxStarted == 4
\* requests the key has already served when the client specification starts
\* with a used key
WarmServed == 8
\* seconds the clock may advance past T0 in the client specification
ClientElapsed == 60

\* ------------------------------------------------------------------------
\* Program constants
\* ------------------------------------------------------------------------
None == "None"
\* None where a secret (a character sequence) is expected
NoSecret == << >>

\* check_rate_limit: current_time + 3600 / current_time + 60
HourWindow == 3600
MinuteWindow == 60
\* settings.max_retries
max_retries == 3

\* APITier
Tiers == {"free", "pro", "premium", "enterprise"}

\* AuthenticationManager.tier_limits
tier_limits ==
  [t \in Tiers |->
     CASE t = "free" ->
            [requests_per_hour |-> 100, requests_per_minute |-> 10,
             concurrent_requests |-> 1, cache_priority |-> 1]
       [] t = "pro" ->
            [requests_per_hour |-> 1000, requests_per_minute |-> 50,
             concurrent_requests |-> 3, cache_priority |-> 2]
       [] t = "premium" ->
            [requests_per_hour |-> 5000, requests_per_minute |-> 200,
             concurrent_requests |-> 5, cache_priority |-> 3]
       [] OTHER ->
            [requests_per_hour |-> 50000, requests_per_minute |-> 1000,
             concurrent_requests |-> 10, cache_priority |-> 4]]

\* ------------------------------------------------------------------------
\* Inputs: raw credentials are character sequences
\* ------------------------------------------------------------------------
SecretA == <<"b","d","l","_","a","l","p","h","a","0","1">>
SecretB == <<"p","r","o","_","b","e","t","a","0","2">>
Secrets == {SecretA, SecretB}
\* further credentials offered for validation and registration: the other
\* tier prefixes, a well-sized secret of no recognised shape, a short one
SecretEnt == <<"e","n","t","_","g","a","m","m","a","0","3">>
SecretPrem == <<"p","r","e","m","_","d","e","l","t","a","4">>
SecretPlain == <<"r","e","g","u","l","a","r","_","k","e","y">>
SecretShort == <<"t","o","o","_","s","h","o","r","t">>
RegSecrets == {SecretA, SecretB, SecretEnt, SecretPrem, SecretPlain, SecretShort}

\* tiers and labels callers pass to add_api_key
TierInputs == {"free"}
LabelInputs == {"Test Key"}

Max(a, b) == IF a >= b THEN a ELSE b

\* str.startswith
startswith(s, p) == Len(s) >= Len(p) /\ SubSeq(s, 1, Len(p)) = p

\* _generate_key_id: sha256(api_key).hexdigest()[:16], a fixed function of
\* the secret alone; the digests of the modelled secrets are distinct.
_generate_key_id(api_key) ==
  CASE api_key = SecretA -> "9c1e5a0d7b3f2e64"
    [] api_key = SecretB -> "41d07fa2c88b615e"
    [] api_key = SecretEnt -> "7a60b1d94e25c3f8"
    [] api_key = SecretPrem -> "c5f2e8790a1d4b36"
    [] api_key = SecretPlain -> "18d3a6f40b97ce52"
    [] api_key = SecretShort -> "f49b07c2d6e8a135"
    [] OTHER -> "e3b0c44298fc1c14"

KeyIds == {_generate_key_id(s) : s \in Secrets}
\* an id no registered secret hashes to
UnknownKeyId == "0000000000000000"
\* key_id arguments callers pass (None selects the default key)
KeyArgs == KeyIds \cup {UnknownKeyId, None}

\* _encrypt_key: a Fernet token carries its creation time and the
\* ciphertext; tokens of the same secret made at different times differ.
_encrypt_key(api_key, t) == [token_time |-> t, ciphertext |-> api_key]
\* _decrypt_key
_decrypt_key(encrypted_key) == encrypted_key.ciphertext

\* _detect_key_tier
_detect_key_tier(api_key) ==
  IF startswith(api_key, <<"e","n","t","_">>) THEN "enterprise"
  ELSE IF startswith(api_key, <<"p","r","e","m","_">>) THEN "premium"
  ELSE IF startswith(api_key, <<"p","r","o","_">>) THEN "pro"
  ELSE "free"

\* ------------------------------------------------------------------------
\* State
\* ------------------------------------------------------------------------
VARIABLES
  api_keys,        \* AuthenticationManager.api_keys: key_id -> APIKeyInfo
  key_order,       \* insertion order of the api_keys dict
  default_key_id,  \* AuthenticationManager.default_key_id
  now,             \* time.time()
  ret,             \* the last key-manager call: operation, argument, return value
  pc,              \* per request: position inside _make_request
  attempt,         \* per request: loop variable of the retry loop
  outcome,         \* per request: what _make_request returned or raised
  hot_cached,      \* the hot cache holds a response for the request's key
  started,         \* number of _make_request calls begun
  recs,            \* per request: record_request calls it has made
  calls,           \* check_rate_limit calls by the client since the minute window opened
  served,          \* requests that recorded usage since the minute window opened
  n_since_check,   \* record_request calls since the last check_rate_limit
  n_in_minute,     \* record_request calls since the minute window opened
  n_in_hour,       \* record_request calls since the hour window opened
  build,           \* which imports and connections succeed in this process
  redis_db,        \* the Redis server: cache key -> value and expiry time
  fs,              \* the cache directory: file path -> file content
  pending,         \* detached _update_metadata tasks not yet run
  popular_queries, \* MultiCacheManager.popular_queries
  analytics,       \* MultiCacheManager.analytics and FileCache.analytics counters
  hot_tasks,       \* per task: position and locals inside RedisCache.get
  warming          \* per task: position and locals of its warming call; the
                   \* warming counters of the warmer and of the manager

kmVars == <<api_keys, key_order, default_key_id>>
clientVars == <<pc, attempt, outcome, hot_cached, started, recs, calls, served>>
countVars == <<n_since_check, n_in_minute, n_in_hour>>
cacheVars == <<build, redis_db, fs, pending, popular_queries, analytics,
               hot_tasks, warming>>
vars == <<api_keys, key_order, default_key_id, now, ret,
          pc, attempt, outcome, hot_cached, started, recs, calls, served,
          n_since_check, n_in_minute, n_in_hour,
          build, redis_db, fs, pending, popular_queries, analytics, hot_tasks,
          warming>>

\* ------------------------------------------------------------------------
\* Key manager (auth_manager.py)
\* ------------------------------------------------------------------------
\* APIKeyInfo as constructed by add_api_key
APIKeyInfo(key_id, tier, encrypted_key, t, label) ==
  [key_id |-> key_id, tier |-> tier, encrypted_key |-> encrypted_key,
   created_at |-> t, last_used |-> t,
   requests_count |-> 0, hourly_requests |-> 0, hourly_reset_time |-> 0,
   minute_requests |-> 0, minute_reset_time |-> 0,
   is_active |-> TRUE, label |-> label]

\* dict item assignment: a new key is appended, an existing key keeps its place
DictSet(d, order, k, v) ==
  [keys |-> [x \in (DOMAIN d) \cup {k} |-> IF x = k THEN v ELSE d[x]],
   order |-> IF k \in DOMAIN d THEN order ELSE Append(order, k)]

\* add_api_key as a function of the manager state m = [keys, order, default]
AddApiKey(m, api_key, tier, label, set_as_default, t) ==
  LET key_id == _generate_key_id(api_key)
      key_info == APIKeyInfo(key_id, tier, _encrypt_key(api_key, t), t, label)
      d == DictSet(m.keys, m.order, key_id, key_info)
  IN [keys |-> d.keys, order |-> d.order,
      default |-> IF set_as_default \/ m.default = None
                  THEN key_id ELSE m.default]

\* an empty dict
EmptyDict == [x \in {} |-> None]

EmptyManager == [keys |-> EmptyDict, order |-> << >>, default |-> None]

\* values of the BALLDONTLIE_API_KEY environment variable
EnvPrimary == {NoSecret, SecretB}

\* _load_api_keys (HOOPHEAD_API_KEYS unset)
_load_api_keys(primary_key, t) ==
  IF primary_key # NoSecret
  THEN AddApiKey(EmptyManager, primary_key, _detect_key_tier(primary_key),
                 "Primary", TRUE, t)
  ELSE EmptyManager

\* "if not key_id: key_id = self.default_key_id"
OrDefault(key_id) == IF key_id = None THEN default_key_id ELSE key_id

\* get_key_info returns a record (not None)
HasKeyInfo(key_id) ==
  OrDefault(key_id) # None /\ OrDefault(key_id) \in DOMAIN api_keys

\* get_key_info, where it returns a record
get_key_info(key_id) == api_keys[OrDefault(key_id)]

\* get_api_key without the is_active test
GetApiKey_IgnoresActive(key_id) ==
  LET k == OrDefault(key_id)
  IN IF k = None \/ k \notin DOMAIN api_keys THEN NoSecret
     ELSE _decrypt_key(api_keys[k].encrypted_key)

\* get_api_key, a read-only query
GetApiKey(key_id) ==
  LET k == OrDefault(key_id)
  IN IF k = None \/ k \notin DOMAIN api_keys THEN NoSecret
     ELSE IF ~api_keys[k].is_active THEN NoSecret
     ELSE _decrypt_key(api_keys[k].encrypted_key)

\* the counters after the window resets of check_rate_limit
ResetWindows(key_info, current_time) ==
  LET h == IF current_time >= key_info.hourly_reset_time
           THEN [key_info EXCEPT !.hourly_requests = 0,
                                 !.hourly_reset_time = current_time + HourWindow]
           ELSE key_info
  IN IF current_time >= h.minute_reset_time
     THEN [h EXCEPT !.minute_requests = 0,
                    !.minute_reset_time = current_time + MinuteWindow]
     ELSE h

\* check_rate_limit comparing with <= where the code compares with <
RateLimitResult_Lenient(key_info) ==
  LET lim == tier_limits[key_info.tier]
      hour_allowed == key_info.hourly_requests <= lim.requests_per_hour
      minute_allowed == key_info.minute_requests <= lim.requests_per_minute
  IN [allowed |-> hour_allowed /\ minute_allowed,
      info |-> [tier |-> key_info.tier,
                hourly_remaining |->
                  Max(0, lim.requests_per_hour - key_info.hourly_requests),
                minute_remaining |->
                  Max(0, lim.requests_per_minute - key_info.minute_requests),
                hourly_reset |-> key_info.hourly_reset_time,
                minute_reset |-> key_info.minute_reset_time,
                concurrent_limit |-> lim.concurrent_requests]]

\* the (allowed, rate_limit_info) pair check_rate_limit builds from key_info
RateLimitResult(key_info) ==
  LET lim == tier_limits[key_info.tier]
      hour_allowed == key_info.hourly_requests < lim.requests_per_hour
      minute_allowed == key_info.minute_requests < lim.requests_per_minute
  IN [allowed |-> hour_allowed /\ minute_allowed,
      info |-> [tier |-> key_info.tier,
                hourly_remaining |->
                  Max(0, lim.requests_per_hour - key_info.hourly_requests),
                minute_remaining |->
                  Max(0, lim.requests_per_minute - key_info.minute_requests),
                hourly_reset |-> key_info.hourly_reset_time,
                minute_reset |-> key_info.minute_reset_time,
                concurrent_limit |-> lim.concurrent_requests]]

InvalidKeyResult == [allowed |-> FALSE, info |-> [error |-> "Invalid API key"]]

\* check_rate_limit: new api_keys and the returned pair
CheckRateLimit(key_id) ==
  IF ~HasKeyInfo(key_id)
  THEN [keys |-> api_keys, result |-> InvalidKeyResult]
  ELSE LET k == ResetWindows(get_key_info(key_id), now)
       IN [keys |-> [api_keys EXCEPT ![k.key_id] = k],
              result |-> RateLimitResult(k)]

\* record_request that forgets the hourly counter
RecordRequest_SkipsHourly(key_id) ==
  IF ~HasKeyInfo(key_id) THEN api_keys
  ELSE LET key_info == get_key_info(key_id)
       IN [api_keys EXCEPT ![key_info.key_id] =
             [key_info EXCEPT !.requests_count = @ + 1,
                              !.minute_requests = @ + 1,
                              !.last_used = now]]

\* record_request: new api_keys
RecordRequest(key_id) ==
  IF ~HasKeyInfo(key_id) THEN api_keys
  ELSE LET key_info == get_key_info(key_id)
       IN [api_keys EXCEPT ![key_info.key_id] =
             [key_info EXCEPT !.requests_count = @ + 1,
                              !.hourly_requests = @ + 1,
                              !.minute_requests = @ + 1,
                              !.last_used = now]]

RECURSIVE SumCounts(_)
\* total of requests_count over the keys in set ks
SumCounts(ks) ==
  IF ks = {} THEN 0
  ELSE LET k == CHOOSE x \in ks : TRUE
       IN api_keys[k].requests_count + SumCounts(ks \ {k})

\* a record_request the exploration still admits
CanRecord(bound) == SumCounts(DOMAIN api_keys) < bound

add_api_key(api_key, tier, label, set_as_default) ==
  LET m == AddApiKey([keys |-> api_keys, order |-> key_order,
                      default |-> default_key_id],
                     api_key, tier, label, set_as_default, now)
  IN /\ api_keys' = m.keys
     /\ key_order' = m.order
     /\ default_key_id' = m.default
     /\ ret' = [op |-> "add_api_key", key_id |-> _generate_key_id(api_key),
                result |-> [returned_id |-> _generate_key_id(api_key)]]
     /\ UNCHANGED now

\* dict order without key k
Without(order, k) == SelectSeq(order, LAMBDA x : x # k)

\* remove_api_key that leaves default_key_id naming the removed key
remove_api_key_KeepsDefault(key_id) ==
  /\ IF key_id \in DOMAIN api_keys
     THEN /\ api_keys' = [x \in (DOMAIN api_keys) \ {key_id} |-> api_keys[x]]
          /\ key_order' = Without(key_order, key_id)
          /\ UNCHANGED default_key_id
          /\ ret' = [op |-> "remove_api_key", key_id |-> key_id, result |-> [returned |-> TRUE]]
     ELSE /\ UNCHANGED kmVars
          /\ ret' = [op |-> "remove_api_key", key_id |-> key_id, result |-> [returned |-> FALSE]]
  /\ UNCHANGED now

remove_api_key(key_id) ==
  /\ IF key_id \in DOMAIN api_keys
     THEN /\ api_keys' = [x \in (DOMAIN api_keys) \ {key_id} |-> api_keys[x]]
          /\ key_order' = Without(key_order, key_id)
          /\ default_key_id' =
               IF default_key_id = key_id
               THEN (IF key_order' # << >> THEN Head(key_order') ELSE None)
               ELSE default_key_id
          /\ ret' = [op |-> "remove_api_key", key_id |-> key_id, result |-> [returned |-> TRUE]]
     ELSE /\ UNCHANGED kmVars
          /\ ret' = [op |-> "remove_api_key", key_id |-> key_id, result |-> [returned |-> FALSE]]
  /\ UNCHANGED now

get_api_key(key_id) ==
  /\ ret' = [op |-> "get_api_key", key_id |-> key_id, result |-> [secret |-> GetApiKey(key_id)]]
  /\ UNCHANGED <<kmVars, now>>

check_rate_limit(key_id) ==
  LET c == CheckRateLimit(key_id)
  IN /\ api_keys' = c.keys
     /\ ret' = [op |-> "check_rate_limit", key_id |-> key_id, result |-> c.result]
     /\ UNCHANGED <<key_order, default_key_id, now>>

record_request(key_id) ==
  /\ api_keys' = RecordRequest(key_id)
  /\ ret' = [op |-> "record_request", key_id |-> key_id,
             result |-> [nothing |-> TRUE]]
  /\ UNCHANGED <<key_order, default_key_id, now>>

set_default_key(key_id) ==
  /\ IF key_id \in DOMAIN api_keys
     THEN /\ default_key_id' = key_id
          /\ ret' = [op |-> "set_default_key", key_id |-> key_id, result |-> [returned |-> TRUE]]
     ELSE /\ UNCHANGED default_key_id
          /\ ret' = [op |-> "set_default_key", key_id |-> key_id, result |-> [returned |-> FALSE]]
  /\ UNCHANGED <<api_keys, key_order, now>>

\* deactivate_key that deletes the record instead of flagging it
deactivate_key_Deletes(key_id) ==
  /\ IF key_id \in DOMAIN api_keys
     THEN /\ api_keys' = [x \in (DOMAIN api_keys) \ {key_id} |-> api_keys[x]]
          /\ key_order' = Without(key_order, key_id)
          /\ ret' = [op |-> "deactivate_key", key_id |-> key_id, result |-> [returned |-> TRUE]]
     ELSE /\ UNCHANGED <<api_keys, key_order>>
          /\ ret' = [op |-> "deactivate_key", key_id |-> key_id, result |-> [returned |-> FALSE]]
  /\ UNCHANGED <<default_key_id, now>>

deactivate_key(key_id) ==
  /\ IF key_id \in DOMAIN api_keys
     THEN /\ api_keys' = [api_keys EXCEPT ![key_id].is_active = FALSE]
          /\ ret' = [op |-> "deactivate_key", key_id |-> key_id, result |-> [returned |-> TRUE]]
     ELSE /\ UNCHANGED api_keys
          /\ ret' = [op |-> "deactivate_key", key_id |-> key_id, result |-> [returned |-> FALSE]]
  /\ UNCHANGED <<key_order, default_key_id, now>>

activate_key(key_id) ==
  /\ IF key_id \in DOMAIN api_keys
     THEN /\ api_keys' = [api_keys EXCEPT ![key_id].is_active = TRUE]
          /\ ret' = [op |-> "activate_key", key_id |-> key_id, result |-> [returned |-> TRUE]]
     ELSE /\ UNCHANGED api_keys
          /\ ret' = [op |-> "activate_key", key_id |-> key_id, result |-> [returned |-> FALSE]]
  /\ UNCHANGED <<key_order, default_key_id, now>>

\* time.time() moves forward by d seconds, at most `elapsed` past T0
Tick(d, elapsed) ==
  /\ now + d <= T0 + elapsed
  /\ now' = now + d
  /\ UNCHANGED <<kmVars, ret>>

NoResult == [op |-> "init", key_id |-> None, result |-> [nothing |-> TRUE]]

\* the client variables while no client runs
ClientIdle ==
  /\ pc = << >> /\ attempt = << >> /\ outcome = << >> /\ recs = << >>
  /\ hot_cached = FALSE /\ started = 0 /\ calls = 0 /\ served = 0

\* the call counters while nobody counts
CountersIdle == n_since_check = 0 /\ n_in_minute = 0 /\ n_in_hour = 0

\* the cache variables while no cache is used
NoBuild == [backend |-> FALSE, auth |-> FALSE, redis_up |-> FALSE, hash_seed |-> 0]
NoAnalytics ==
  [total_requests |-> 0, redis_hits |-> 0, file_hits |-> 0, cache_misses |-> 0,
   file_hit_count |-> 0, file_miss_count |-> 0, total_files |-> 0,
   total_size |-> 0, tier_breakdown |-> EmptyDict]
\* no task warms, no cycle was counted
NoWarming ==
  [cycles |-> << >>,
   warming_stats |-> [total_warming_cycles |-> 0, queries_warmed |-> 0,
                      queries_failed |-> 0],
   warming_cycles |-> 0]

CacheIdle ==
  /\ build = NoBuild
  /\ redis_db = EmptyDict /\ fs = EmptyDict /\ pending = {}
  /\ popular_queries = EmptyDict /\ analytics = NoAnalytics
  /\ hot_tasks = << >> /\ warming = NoWarming

\* ------------------------------------------------------------------------
\* Specification of the key manager: every public operation, any order
\* ------------------------------------------------------------------------
Init ==
  /\ now = T0
  /\ \E primary \in EnvPrimary :
       LET m == _load_api_keys(primary, T0)
       IN /\ api_keys = m.keys
          /\ key_order = m.order
          /\ default_key_id = m.default
  /\ ret = NoResult
  /\ ClientIdle
  /\ CountersIdle
  /\ CacheIdle

\* the calls of the public operations, with the inputs callers may pass
CallAdd ==
  /\ \E s \in Secrets, t \in TierInputs, l \in LabelInputs, d \in BOOLEAN :
       add_api_key(s, t, l, d)
  /\ UNCHANGED <<clientVars, countVars, cacheVars>>

CallRemove ==
  /\ \E k \in KeyIds \cup {UnknownKeyId} : remove_api_key(k)
  /\ UNCHANGED <<clientVars, countVars, cacheVars>>

CallGet ==
  /\ \E k \in KeyArgs : get_api_key(k)
  /\ UNCHANGED <<clientVars, countVars, cacheVars>>

CallCheck ==
  /\ \E k \in KeyArgs : check_rate_limit(k)
  /\ UNCHANGED <<clientVars, countVars, cacheVars>>

CallRecord ==
  /\ CanRecord(MaxRequests)
  /\ \E k \in KeyArgs : record_request(k)
  /\ UNCHANGED <<clientVars, countVars, cacheVars>>

CallSetDefault ==
  /\ \E k \in KeyIds \cup {UnknownKeyId} : set_default_key(k)
  /\ UNCHANGED <<clientVars, countVars, cacheVars>>

CallDeactivate ==
  /\ \E k \in KeyIds \cup {UnknownKeyId} : deactivate_key(k)
  /\ UNCHANGED <<clientVars, countVars, cacheVars>>

CallActivate ==
  /\ \E k \in KeyIds \cup {UnknownKeyId} : activate_key(k)
  /\ UNCHANGED <<clientVars, countVars, cacheVars>>

ClockTick ==
  /\ Tick(MinuteWindow, MaxElapsed)
  /\ UNCHANGED <<clientVars, countVars, cacheVars>>

Next ==
  \/ CallAdd \/ CallRemove \/ CallGet \/ CallCheck \/ CallRecord
  \/ CallSetDefault \/ CallDeactivate \/ CallActivate \/ ClockTick

Spec == Init /\ [][Next]_vars

\* ------------------------------------------------------------------------
\* Specification of one key under a burst of direct calls
\* (tests: a loop of record_request between check_rate_limit calls)
\* ------------------------------------------------------------------------
\* the key those callers use: the primary key of the environment
TheKey == _generate_key_id(SecretA)

\* the manager constructed with BALLDONTLIE_API_KEY = SecretA (a FREE key)
OneKeyInit ==
  /\ now = T0
  /\ LET m == _load_api_keys(SecretA, T0)
     IN /\ api_keys = m.keys
        /\ key_order = m.order
        /\ default_key_id = m.default
  /\ ret = NoResult

\* check_rate_limit finds the minute / hour window of key_id elapsed
MinuteElapsed(key_id) == now >= get_key_info(key_id).minute_reset_time
HourElapsed(key_id) == now >= get_key_info(key_id).hourly_reset_time

BurstCheck ==
  /\ check_rate_limit(TheKey)
  /\ n_since_check' = 0
  /\ n_in_minute' = IF MinuteElapsed(TheKey) THEN 0 ELSE n_in_minute
  /\ n_in_hour' = IF HourElapsed(TheKey) THEN 0 ELSE n_in_hour
  /\ UNCHANGED <<clientVars, cacheVars>>

BurstRecord ==
  /\ CanRecord(MaxBurst)
  /\ record_request(TheKey)
  /\ n_since_check' = n_since_check + 1
  /\ n_in_minute' = n_in_minute + 1
  /\ n_in_hour' = n_in_hour + 1
  /\ UNCHANGED <<clientVars, cacheVars>>

BurstTick ==
  /\ Tick(MinuteWindow, BurstElapsed)
  /\ UNCHANGED <<clientVars, countVars, cacheVars>>

BurstInit == OneKeyInit /\ ClientIdle /\ CountersIdle /\ CacheIdle

BurstNext == BurstCheck \/ BurstRecord \/ BurstTick

BurstSpec == BurstInit /\ [][BurstNext]_vars

\* ------------------------------------------------------------------------
\* Provider client (ball_dont_lie_client.py): BallDontLieClient._make_request
\* ------------------------------------------------------------------------
\* the _make_request calls that may be in flight at once
Requests == {1, 2}

\* outcomes of one provider round trip: the HTTP status classes the retry
\* loop distinguishes, asyncio.TimeoutError and any other exception
Responses == {"200", "401", "429", "404", "5xx", "4xx", "timeout", "error"}

NoInfo == [absent |-> TRUE]
NoOutcome == [kind |-> "none", denied |-> FALSE, rate_limit_info |-> NoInfo]
Returned(kind) == [kind |-> kind, denied |-> FALSE, rate_limit_info |-> NoInfo]
Raised(kind) == [kind |-> kind, denied |-> FALSE, rate_limit_info |-> NoInfo]

\* what the denied branch raises: evaluating ErrorContext(operation=...,
\* rate_limit_info=..., key_id=...) fails, ErrorContext has no such fields,
\* so the APIRateLimitError is never constructed
DeniedOutcome(rate_limit_info) ==
  [kind |-> "TypeError", denied |-> TRUE, rate_limit_info |-> NoInfo]

\* record_request made by request r
ClientRecords(r) ==
  /\ api_keys' = RecordRequest(TheKey)
  /\ recs' = [recs EXCEPT ![r] = @ + 1]
  /\ served' = IF recs[r] = 0 THEN served + 1 ELSE served

\* _make_request up to its first suspension: the rate-limit check
Begin(r, use_cache, bound) ==
  /\ pc[r] = "idle"
  /\ started < bound
  /\ started' = started + 1
  /\ LET c == CheckRateLimit(TheKey)
         opened == MinuteElapsed(TheKey)
     IN /\ api_keys' = c.keys
        /\ calls' = IF opened THEN 1 ELSE calls + 1
        /\ served' = IF opened THEN 0 ELSE served
        /\ IF c.result.allowed
           THEN /\ pc' = [pc EXCEPT ![r] = IF use_cache THEN "probe"
                                            ELSE "request_nocache"]
                /\ outcome' = [outcome EXCEPT ![r] = NoOutcome]
           ELSE /\ pc' = pc
                /\ outcome' = [outcome EXCEPT ![r] = DeniedOutcome(c.result.info)]
  /\ attempt' = [attempt EXCEPT ![r] = 0]
  /\ recs' = [recs EXCEPT ![r] = 0]
  /\ UNCHANGED <<key_order, default_key_id, now, ret, hot_cached, countVars, cacheVars>>

\* redis_cache.get returns without recording the usage of a hit
CacheReturns_NoUsage(r, hit) ==
  /\ pc[r] = "probe"
  /\ hit => hot_cached
  /\ IF hit
     THEN /\ pc' = [pc EXCEPT ![r] = "idle"]
          /\ outcome' = [outcome EXCEPT ![r] = Returned("cached")]
     ELSE /\ pc' = [pc EXCEPT ![r] = "request"]
          /\ UNCHANGED outcome
  /\ UNCHANGED <<api_keys, recs, served>>
  /\ UNCHANGED <<key_order, default_key_id, now, ret, attempt, hot_cached,
                 started, calls, countVars, cacheVars>>

\* redis_cache.get returns: a hit is recorded and returned, a miss (also a
\* failed read, which get reports as None) goes on to the provider
CacheReturns(r, hit) ==
  /\ pc[r] = "probe"
  /\ hit => hot_cached
  /\ IF hit
     THEN /\ ClientRecords(r)
          /\ pc' = [pc EXCEPT ![r] = "idle"]
          /\ outcome' = [outcome EXCEPT ![r] = Returned("cached")]
     ELSE /\ pc' = [pc EXCEPT ![r] = "request"]
          /\ UNCHANGED <<api_keys, recs, served, outcome>>
  /\ UNCHANGED <<key_order, default_key_id, now, ret, attempt, hot_cached,
                 started, calls, countVars, cacheVars>>

\* "except Exception" of the retry loop: retry, or APIConnectionError after
\* the last attempt
RetryOrFail(r, last_error) ==
  IF attempt[r] < max_retries - 1
  THEN /\ attempt' = [attempt EXCEPT ![r] = @ + 1]
       /\ UNCHANGED <<pc, outcome>>
  ELSE /\ pc' = [pc EXCEPT ![r] = "idle"]
       /\ outcome' = [outcome EXCEPT ![r] = Raised(last_error)]
       /\ UNCHANGED attempt

\* session.get returns (or raises) inside the retry loop; stored tells
\* whether redis_cache.set kept the response
Respond(r, resp, stored) ==
  /\ pc[r] \in {"request", "request_nocache"}
  /\ stored => pc[r] = "request"
  /\ IF resp = "200"
     THEN /\ ClientRecords(r)
          /\ hot_cached' = (hot_cached \/ stored)
          /\ pc' = [pc EXCEPT ![r] = "idle"]
          /\ outcome' = [outcome EXCEPT ![r] = Returned("response")]
          /\ UNCHANGED attempt
     ELSE /\ ~stored
          /\ UNCHANGED hot_cached
          /\ IF resp = "401"
             THEN ClientRecords(r)
             ELSE UNCHANGED <<api_keys, recs, served>>
          /\ IF resp = "timeout"
             THEN RetryOrFail(r, "APITimeoutError")
             ELSE RetryOrFail(r, "APIConnectionError")
  /\ UNCHANGED <<key_order, default_key_id, now, ret, started, calls, countVars, cacheVars>>

ClientTick(d, elapsed) ==
  /\ Tick(d, elapsed)
  /\ UNCHANGED <<clientVars, countVars, cacheVars>>

\* ------------------------------------------------------------------------
\* Specification of the client with several requests in flight
\* ------------------------------------------------------------------------
\* the key after w requests were served one after another at time T0: the
\* first check opened both windows, each request recorded once
UsedKey(key_info, w) ==
  [key_info EXCEPT !.requests_count = w, !.hourly_requests = w,
                   !.minute_requests = w,
                   !.hourly_reset_time = T0 + HourWindow,
                   !.minute_reset_time = T0 + MinuteWindow]

\* the client starts on a fresh key, or on a key that has served
\* WarmServed requests in the current window
ClientSpecInit ==
  /\ now = T0
  /\ ret = NoResult
  /\ key_order = _load_api_keys(SecretA, T0).order
  /\ default_key_id = _load_api_keys(SecretA, T0).default
  /\ pc = [r \in Requests |-> "idle"]
  /\ attempt = [r \in Requests |-> 0]
  /\ outcome = [r \in Requests |-> NoOutcome]
  /\ recs = [r \in Requests |-> 0]
  /\ started = 0
  /\ CountersIdle /\ CacheIdle
  /\ \/ /\ api_keys = _load_api_keys(SecretA, T0).keys
        /\ hot_cached = FALSE /\ calls = 0 /\ served = 0
     \/ /\ api_keys = [k \in {TheKey} |->
                         UsedKey(_load_api_keys(SecretA, T0).keys[k], WarmServed)]
        /\ hot_cached \in BOOLEAN /\ calls = WarmServed /\ served = WarmServed

ClientNext ==
  \/ \E r \in Requests, u \in BOOLEAN : Begin(r, u, MaxStarted)
  \/ \E r \in Requests, hit \in BOOLEAN : CacheReturns(r, hit)
  \/ \E r \in Requests, resp \in Responses, stored \in BOOLEAN :
       Respond(r, resp, stored)
  \/ ClientTick(MinuteWindow, ClientElapsed)

ClientSpec == ClientSpecInit /\ [][ClientNext]_vars

\* ------------------------------------------------------------------------
\* Specification of one caller that makes its calls one after another:
\* every call is check_rate_limit and then, if allowed, one record_request
\* ------------------------------------------------------------------------
SeqInit ==
  /\ OneKeyInit /\ CountersIdle /\ CacheIdle
  /\ pc = [r \in {1} |-> "idle"]
  /\ attempt = << >> /\ outcome = << >> /\ recs = << >>
  /\ hot_cached = FALSE /\ started = 0 /\ calls = 0 /\ served = 0

\* the rate-limit check that opens a call
SeqAuthorize ==
  /\ pc[1] = "idle"
  /\ started < SeqCalls
  /\ started' = started + 1
  /\ check_rate_limit(TheKey)
  /\ calls' = IF MinuteElapsed(TheKey) THEN 1 ELSE calls + 1
  /\ pc' = [pc EXCEPT ![1] = IF ret'.result.allowed THEN "admitted" ELSE "idle"]
  /\ UNCHANGED <<attempt, outcome, recs, hot_cached, served, countVars, cacheVars>>

\* the usage record that closes an admitted call
SeqRecord ==
  /\ pc[1] = "admitted"
  /\ record_request(TheKey)
  /\ pc' = [pc EXCEPT ![1] = "idle"]
  /\ UNCHANGED <<attempt, outcome, recs, hot_cached, started, calls, served,
                 countVars, cacheVars>>

SeqNext == SeqAuthorize \/ SeqRecord \/ ClientTick(20, SeqElapsed)

SeqSpec == SeqInit /\ [][SeqNext]_vars

\* ------------------------------------------------------------------------
\* Properties of the key manager
\* ------------------------------------------------------------------------
\* this step is a call of key-manager operation op (every operation leaves
\* its name in ret and no operation moves the clock)
Called(op) == ret'.op = op /\ now' = now

\* the rolling counters and window boundaries of a key record
Counters(key_info) ==
  <<key_info.requests_count, key_info.hourly_requests, key_info.minute_requests,
    key_info.hourly_reset_time, key_info.minute_reset_time>>

\* C1: registering a secret again returns the same key id and leaves
\* requestsTotal, hourlyCount, minuteCount and both reset times of the
\* existing record as they were.
C1_ReRegisterKeepsCounters ==
  [][\A s \in Secrets :
       (Called("add_api_key") /\ ret'.key_id = _generate_key_id(s)
          /\ _generate_key_id(s) \in DOMAIN api_keys)
       => /\ ret'.result.returned_id = _generate_key_id(s)
          /\ Counters(api_keys'[_generate_key_id(s)])
               = Counters(api_keys[_generate_key_id(s)])]_vars

\* the credential named by key_id is unknown or deactivated
InvalidCredential(key_id) ==
  IF HasKeyInfo(key_id) THEN ~get_key_info(key_id).is_active ELSE TRUE

\* C8: check_rate_limit and record_request on an unknown or deactivated key
\* change no key record, and check_rate_limit does not answer allowed = TRUE.
C8_InvalidCredentialMutatesNothing ==
  [][/\ (Called("check_rate_limit") /\ InvalidCredential(ret'.key_id))
          => (api_keys' = api_keys /\ ~ret'.result.allowed)
     /\ (Called("record_request") /\ InvalidCredential(ret'.key_id))
          => api_keys' = api_keys]_vars

\* the secret whose key id is k
SecretOf(k) == CHOOSE s \in Secrets : _generate_key_id(s) = k

\* what resolveSecret has to answer for argument key_id in the current state
ExpectedSecret(key_id) ==
  LET k == IF key_id = None THEN default_key_id ELSE key_id
  IN IF k \in DOMAIN api_keys /\ k \in KeyIds
     THEN (IF api_keys[k].is_active THEN SecretOf(k) ELSE NoSecret)
     ELSE NoSecret

\* C9: get_api_key(id) returns exactly the registered secret while the key
\* is active, None once it is deactivated, the secret again once it is
\* activated, the same for the default key when no id is given, and None
\* for an id that is not registered.
C9_ResolveSecret ==
  /\ [](ret.op = "get_api_key" => ret.result.secret = ExpectedSecret(ret.key_id))
  /\ [][\A k \in KeyIds :
          /\ (Called("deactivate_key") /\ ret'.key_id = k /\ k \in DOMAIN api_keys)
               => GetApiKey(k)' = NoSecret
          /\ (Called("activate_key") /\ ret'.key_id = k /\ k \in DOMAIN api_keys)
               => GetApiKey(k)' = SecretOf(k)
          /\ (Called("add_api_key") /\ ret'.key_id = k)
               => (ret'.result.returned_id = k /\ GetApiKey(k)' = SecretOf(k))]_vars

\* C9 witness: the default key was resolved to its secret while another
\* registered key is deactivated.
C9_Witness ==
  /\ ret.op = "get_api_key" /\ ret.key_id = None
  /\ ret.result.secret = SecretA
  /\ _generate_key_id(SecretB) \in DOMAIN api_keys
  /\ ~api_keys[_generate_key_id(SecretB)].is_active

\* C10 as stated: no step removes a key record.
C10_KeysOnlyGrow ==
  [][DOMAIN api_keys \subseteq DOMAIN api_keys']_vars

\* C10 amended: every operation other than remove_api_key keeps every
\* registered record, and remove_api_key(id) deletes the record id only.
C10_OnlyRemoveDeletes ==
  [][/\ Called("remove_api_key") \/ DOMAIN api_keys \subseteq DOMAIN api_keys'
     /\ Called("remove_api_key")
          => DOMAIN api_keys' = (DOMAIN api_keys) \ {ret'.key_id}]_vars

\* C10 witness: a key was deactivated, is not the default and is still
\* registered.
C10_Witness ==
  /\ ret.op = "deactivate_key" /\ ret.result.returned
  /\ ret.key_id \in DOMAIN api_keys
  /\ ~api_keys[ret.key_id].is_active
  /\ default_key_id # ret.key_id

\* ------------------------------------------------------------------------
\* Properties of the rate limiter
\* ------------------------------------------------------------------------
\* limits of the tier of TheKey
MinuteLimit == tier_limits[api_keys[TheKey].tier].requests_per_minute
HourLimit == tier_limits[api_keys[TheKey].tier].requests_per_hour

\* C2: with the hourly limit not reached, calls 1..L of a minute window are
\* allowed, call L+1 (and any further call of the window) is denied with
\* minute_remaining = 0, and the first check made at or after the minute
\* reset time is allowed again.
C2_MinuteBoundary ==
  /\ []((ret.op = "check_rate_limit" /\ ret.result.info.hourly_remaining > 0)
          => /\ calls <= MinuteLimit => ret.result.allowed
             /\ calls > MinuteLimit
                  => (~ret.result.allowed /\ ret.result.info.minute_remaining = 0))
  /\ [][(Called("check_rate_limit") /\ MinuteElapsed(TheKey)
           /\ ret'.result.info.hourly_remaining > 0)
          => ret'.result.allowed]_vars

\* C2 witness: the limit of the first window was used up and the first check
\* after the minute boundary is allowed again.
C2_Witness ==
  /\ ret.op = "check_rate_limit" /\ ret.result.allowed
  /\ calls = 1
  /\ now >= T0 + MinuteWindow
  /\ api_keys[TheKey].requests_count = MinuteLimit

\* C4: once more record_request calls than the per-minute limit were made
\* for a key within the current minute, check_rate_limit answers
\* allowed = FALSE, also when it is the first check on the key.  (Less than
\* a minute after the key was created at T0, requests_count is the number
\* of record_request calls made within the current minute.)
C4_OverLimitIsDenied ==
  (ret.op = "check_rate_limit" /\ now < T0 + MinuteWindow
     /\ api_keys[TheKey].requests_count > MinuteLimit)
    => ~ret.result.allowed

\* what check_rate_limit has to report when n_m / n_h requests count
\* against the minute / hour window
ReportsCounts(result, n_m, n_h) ==
  /\ result.info.minute_remaining = Max(0, MinuteLimit - n_m)
  /\ result.info.hourly_remaining = Max(0, HourLimit - n_h)
  /\ result.info.minute_reset = api_keys'[TheKey].minute_reset_time
  /\ result.info.hourly_reset = api_keys'[TheKey].hourly_reset_time
  /\ result.info.minute_reset > now /\ result.info.hourly_reset > now
  /\ result.allowed = (n_m < MinuteLimit /\ n_h < HourLimit)

\* C5 as stated: a check that follows an earlier check and n record_request
\* calls in the same windows reports max(0, limit - n) for both windows.
C5_RemainingSinceLastCheck ==
  [][(Called("check_rate_limit") /\ api_keys[TheKey].minute_reset_time # 0
        /\ ~MinuteElapsed(TheKey) /\ ~HourElapsed(TheKey))
       => ReportsCounts(ret'.result, n_since_check, n_since_check)]_vars

\* C5 amended: n counts every record_request since the check that opened the
\* window (the one that reset the counter), whatever checks came between.
C5_RemainingInWindow ==
  [][Called("check_rate_limit")
       => ReportsCounts(ret'.result, n_in_minute', n_in_hour')]_vars

\* C5 witness: a check after more recorded requests than the hourly limit
\* was denied and reports 0 remaining in both windows.
C5_Witness ==
  /\ ret.op = "check_rate_limit" /\ ~ret.result.allowed
  /\ n_in_hour > HourLimit /\ n_since_check = 0
  /\ ret.result.info.hourly_remaining = 0
  /\ ret.result.info.minute_remaining = 0

\* ------------------------------------------------------------------------
\* Properties of the client's request path
\* ------------------------------------------------------------------------
\* C3: with several requests in flight on one key, the requests admitted and
\* recorded within one minute window never outnumber the per-minute limit.
C3_AdmittedWithinLimit == served <= MinuteLimit

\* the three usage counters of TheKey each grew by exactly one
UsageGrewByOne ==
  /\ api_keys'[TheKey].requests_count = api_keys[TheKey].requests_count + 1
  /\ api_keys'[TheKey].hourly_requests = api_keys[TheKey].hourly_requests + 1
  /\ api_keys'[TheKey].minute_requests = api_keys[TheKey].minute_requests + 1

\* C6: a request served from the cache has recorded usage exactly once, and
\* the step that serves it raises requests_count, hourly_requests and
\* minute_requests by one each, as the step that returns a provider
\* response does.
C6_CacheHitRecordsUsage ==
  /\ [](\A r \in Requests : outcome[r].kind = "cached" => recs[r] = 1)
  /\ [][\A r \in Requests :
          /\ (pc[r] = "probe" /\ pc'[r] = "idle" /\ outcome'[r].kind = "cached")
               => UsageGrewByOne
          /\ (pc[r] \in {"request", "request_nocache"} /\ pc'[r] = "idle"
                /\ outcome'[r].kind = "response")
               => UsageGrewByOne]_vars

\* C6 witness: a request was served from the cache after an earlier request
\* had fetched and stored the response.
C6_Witness ==
  \E r \in Requests :
    /\ outcome[r].kind = "cached" /\ recs[r] = 1
    /\ api_keys[TheKey].requests_count >= 2
    /\ \E q \in Requests : outcome[q].kind = "response"

\* C7: a denied request is not served, its caller gets the rate-limit error
\* with the remaining counts and reset times, and no usage counter changes.
C7_DeniedGetsRateLimitError ==
  /\ [](\A r \in Requests :
          outcome[r].denied
            => /\ outcome[r].kind = "APIRateLimitError"
               /\ outcome[r].rate_limit_info # NoInfo)
  /\ [][\A r \in Requests :
          ((\E u \in BOOLEAN : Begin(r, u, MaxStarted)) /\ outcome'[r].denied)
            => /\ pc'[r] = "idle" /\ hot_cached' = hot_cached
               /\ api_keys'[TheKey].requests_count = api_keys[TheKey].requests_count
               /\ api_keys'[TheKey].hourly_requests = api_keys[TheKey].hourly_requests
               /\ api_keys'[TheKey].minute_requests = api_keys[TheKey].minute_requests]_vars

\* ------------------------------------------------------------------------
\* Validation and registration of credentials (auth_manager.py)
\* ------------------------------------------------------------------------
\* keys the manager may hold in the registration specification
MaxKeys == 2

\* the shapes validate_api_key accepts for a secret it has not stored
KnownPrefixes ==
  {<<"b","d","l","_">>, <<"s","k","_">>, <<"p","k","_">>,
   <<"e","n","t","_">>, <<"p","r","o","_">>, <<"p","r","e","m","_">>}

\* the default of add_api_key's tier parameter
DefaultTier == "free"

\* tiers callers pass to add_api_key in the registration specification
RegTiers == {"free", "enterprise"}

\* secrets offered to validate_api_key ("" included)
ValidateInputs == RegSecrets \cup {NoSecret}

RegKeyIds == {_generate_key_id(s) : s \in RegSecrets}

\* validate_api_key judging the shape only, never looking the secret up
ValidateApiKey_FormatOnly(keys, api_key) ==
  IF api_key = NoSecret \/ Len(api_key) < 10
  THEN [is_valid |-> FALSE, key_id |-> None, tier |-> None]
  ELSE IF \E p \in KnownPrefixes : startswith(api_key, p)
       THEN [is_valid |-> TRUE, key_id |-> None,
             tier |-> _detect_key_tier(api_key)]
       ELSE [is_valid |-> FALSE, key_id |-> None, tier |-> None]

\* validate_api_key as a function of the api_keys dict: (is_valid, key_id, tier)
ValidateApiKey(keys, api_key) ==
  IF api_key = NoSecret \/ Len(api_key) < 10
  THEN [is_valid |-> FALSE, key_id |-> None, tier |-> None]
  ELSE IF _generate_key_id(api_key) \in DOMAIN keys
       THEN [is_valid |-> keys[_generate_key_id(api_key)].is_active,
             key_id |-> _generate_key_id(api_key),
             tier |-> keys[_generate_key_id(api_key)].tier]
       ELSE IF \E p \in KnownPrefixes : startswith(api_key, p)
            THEN [is_valid |-> TRUE, key_id |-> None,
                  tier |-> _detect_key_tier(api_key)]
            ELSE [is_valid |-> FALSE, key_id |-> None, tier |-> None]

\* validate_api_key(api_key); the result carries the argument
validate_api_key(api_key) ==
  /\ ret' = [op |-> "validate_api_key", key_id |-> None,
             result |-> [api_key |-> api_key,
                         validated |-> ValidateApiKey(api_keys, api_key)]]
  /\ UNCHANGED <<kmVars, now>>

\* add_api_key(api_key, label=..., set_as_default=...): the tier argument is
\* omitted and the parameter takes its default
add_api_key_no_tier(api_key, label, set_as_default) ==
  LET m == AddApiKey([keys |-> api_keys, order |-> key_order,
                      default |-> default_key_id],
                     api_key, DefaultTier, label, set_as_default, now)
  IN /\ api_keys' = m.keys
     /\ key_order' = m.order
     /\ default_key_id' = m.default
     /\ ret' = [op |-> "add_api_key", key_id |-> _generate_key_id(api_key),
                result |-> [returned_id |-> _generate_key_id(api_key),
                            tier_omitted |-> TRUE]]
     /\ UNCHANGED now

\* room for the key of api_key in the registration specification
RegRoom(api_key) ==
  IF _generate_key_id(api_key) \in DOMAIN api_keys THEN TRUE
  ELSE Cardinality(DOMAIN api_keys) < MaxKeys

RegAdd ==
  /\ \E s \in RegSecrets, t \in RegTiers :
       RegRoom(s) /\ add_api_key(s, t, "Test Key", FALSE)
  /\ UNCHANGED <<clientVars, countVars, cacheVars>>

RegAddNoTier ==
  /\ \E s \in RegSecrets :
       RegRoom(s) /\ add_api_key_no_tier(s, "Test Key", FALSE)
  /\ UNCHANGED <<clientVars, countVars, cacheVars>>

RegValidate ==
  /\ \E s \in ValidateInputs : validate_api_key(s)
  /\ UNCHANGED <<clientVars, countVars, cacheVars>>

RegDeactivate ==
  /\ \E k \in RegKeyIds : deactivate_key(k)
  /\ UNCHANGED <<clientVars, countVars, cacheVars>>

RegActivate ==
  /\ \E k \in RegKeyIds : activate_key(k)
  /\ UNCHANGED <<clientVars, countVars, cacheVars>>

RegNext ==
  \/ RegAdd \/ RegAddNoTier \/ RegValidate \/ RegDeactivate \/ RegActivate

RegSpec == Init /\ [][RegNext]_vars

\* ------------------------------------------------------------------------
\* Properties of validation and registration
\* ------------------------------------------------------------------------
\* the last call was validate_api_key
Validated == ret.op = "validate_api_key"

\* (valid, tier) of a validate_api_key result
ValidTier(v) == <<v.is_valid, v.tier>>

\* C11: validate_api_key changes no key-manager state, and the validity and
\* tier it returns depend on the secret alone: whatever was registered,
\* deactivated or activated before, they are what the call returns for that
\* secret on a manager that holds no key.
C11_ValidateDependsOnSecretAlone ==
  /\ [][Called("validate_api_key") => UNCHANGED kmVars]_vars
  /\ [](Validated =>
          ValidTier(ret.result.validated)
            = ValidTier(ValidateApiKey(EmptyDict, ret.result.api_key)))

\* C11 (amended): validate_api_key changes no key-manager state; for a
\* secret the manager does not hold, validity and tier depend on the secret
\* alone; for a secret of at least 10 characters that the manager holds, it
\* returns the record's is_active flag as validity, and the record's tier.
C11_ValidateReadsRegistry ==
  /\ [][Called("validate_api_key") => UNCHANGED kmVars]_vars
  /\ [](Validated =>
          IF _generate_key_id(ret.result.api_key) \in DOMAIN api_keys
               /\ Len(ret.result.api_key) >= 10
          THEN ValidTier(ret.result.validated)
                 = <<api_keys[_generate_key_id(ret.result.api_key)].is_active,
                     api_keys[_generate_key_id(ret.result.api_key)].tier>>
          ELSE ValidTier(ret.result.validated)
                 = ValidTier(ValidateApiKey(EmptyDict, ret.result.api_key)))

\* C11 witness: a well-shaped secret whose key was registered with another
\* tier than its prefix implies and then deactivated is validated: the call
\* answers invalid, with the stored tier.
C11_Witness ==
  /\ Validated
  /\ ret.result.api_key = SecretB
  /\ _generate_key_id(SecretB) \in DOMAIN api_keys
  /\ ~api_keys[_generate_key_id(SecretB)].is_active
  /\ api_keys[_generate_key_id(SecretB)].tier # _detect_key_tier(SecretB)
  /\ ~ret.result.validated.is_valid
  /\ ret.result.validated.tier = api_keys[_generate_key_id(SecretB)].tier

\* the secret a key id of the registration specification was made from
RegSecretOf(k) == CHOOSE s \in RegSecrets : _generate_key_id(s) = k

\* C12: add_api_key called without a tier stores the key with the tier its
\* secret's prefix implies (ent_, prem_, pro_), and with the free tier only
\* when the secret has none of these prefixes.
C12_NoTierDetectsFromPrefix ==
  [][(Called("add_api_key") /\ ret'.result = [returned_id |-> ret'.key_id,
                                               tier_omitted |-> TRUE])
       => api_keys'[ret'.key_id].tier
            = _detect_key_tier(RegSecretOf(ret'.key_id))]_vars

\* ------------------------------------------------------------------------
\* Cache keys (redis_client.py, file_cache.py, multi_cache_manager.py)
\* ------------------------------------------------------------------------
\* entries a params dict may have in the key specification
MaxParams == 2

\* Sport (two of its five members) and the endpoints callers name
Sports == {"nba", "mlb"}
Endpoints == {"teams", "career_stats"}

\* keys and values of params dicts
ParamKeys == {"page", "per_page", "search"}
ParamValues == {1, 2}

\* the order of str on the modelled keys
KeyRank(k) == CASE k = "page" -> 1 [] k = "per_page" -> 2 [] OTHER -> 3

Range(f) == {f[i] : i \in DOMAIN f}

\* a dict is the sequence of its items in insertion order, keys distinct
IsDict(items) ==
  \A i, j \in DOMAIN items : i # j => items[i][1] # items[j][1]

Dicts(n) ==
  {items \in UNION {[1..m -> ParamKeys \X ParamValues] : m \in 0..n} :
     IsDict(items)}

\* the params argument: None, or a dict
NoneParams == [is_none |-> TRUE, items |-> << >>]
ParamsOf(items) == [is_none |-> FALSE, items |-> items]
ParamsArgs(n) == {NoneParams} \cup {ParamsOf(d) : d \in Dicts(n)}

\* "params or {}": None and the empty dict both give {}
OrEmptyDict(params) == IF params.is_none THEN << >> ELSE params.items

\* sorted(d.items()): the items in the order of their keys
sorted_items(items) ==
  CHOOSE s \in [1..Len(items) -> Range(items)] :
    /\ Range(s) = Range(items)
    /\ \A i \in 1..(Len(items) - 1) : KeyRank(s[i][1]) < KeyRank(s[i + 1][1])

\* json.dumps(d) without sort_keys: the items in insertion order
dumps_sort_keys_InsertionOrder(items) == [json |-> items]

\* json.dumps(d, sort_keys=True): the text lists the items by key
dumps_sort_keys(items) == [json |-> sorted_items(items)]

\* str(sorted(d.items()))
str_sorted_items(items) == [repr |-> sorted_items(items)]

\* the built-in hash of a str: a function of the text and of the process's
\* hash seed
hash(text) == [hash_of |-> text, seed |-> build.hash_seed]

\* hashlib.md5(text.encode()).hexdigest()[:8]
md5_8(text) == [md5_8_of |-> text]

\* RedisCache._generate_cache_key
_generate_cache_key(sport, endpoint, params) ==
  [key_prefix |-> "hoophead", version |-> "v1", sport |-> sport,
   endpoint |-> endpoint,
   params_hash |-> hash(dumps_sort_keys(OrEmptyDict(params)))]

\* datetime.now().strftime("%Y-%m"), months counted as 30 days
SecondsPerMonth == 2592000
\* strftime("%Y"): the file name carries the year only
date_str_YearOnly(t) == t \div (12 * SecondsPerMonth)

date_str(t) == t \div SecondsPerMonth

\* FileCacheStrategy
FileCacheStrategies == {"historical", "seasonal", "daily", "transient"}

\* FileCache._get_file_path
_get_file_path(sport, endpoint, params, strategy) ==
  [sport |-> sport, endpoint |-> endpoint, strategy |-> strategy,
   date_str |-> date_str(now),
   params_hash |-> md5_8(dumps_sort_keys(OrEmptyDict(params)))]

\* MultiCacheManager._generate_query_key
_generate_query_key(sport, endpoint, params) ==
  [sport |-> sport, endpoint |-> endpoint,
   digest |-> md5_8(str_sorted_items(OrEmptyDict(params)))]

\* the hash seeds a process may start with
HashSeeds == {1, 2}

KeyInit ==
  /\ now = T0 /\ ret = NoResult
  /\ api_keys = EmptyDict /\ key_order = << >> /\ default_key_id = None
  /\ ClientIdle /\ CountersIdle
  /\ build \in {[NoBuild EXCEPT !.hash_seed = h] : h \in HashSeeds}
  /\ redis_db = EmptyDict /\ fs = EmptyDict /\ pending = {}
  /\ popular_queries = EmptyDict /\ analytics = NoAnalytics
  /\ hot_tasks = << >> /\ warming = NoWarming

\* one call of a key function; the result carries the arguments
KeyCall(op, sport, endpoint, params, key) ==
  /\ ret' = [op |-> op, key_id |-> None,
             result |-> [sport |-> sport, endpoint |-> endpoint,
                         params |-> params, key |-> key]]
  /\ UNCHANGED <<kmVars, now, clientVars, countVars, cacheVars>>

KeyHot ==
  \E sp \in Sports, e \in Endpoints, p \in ParamsArgs(MaxParams) :
    KeyCall("_generate_cache_key", sp, e, p, _generate_cache_key(sp, e, p))

KeyFile ==
  \E sp \in Sports, e \in Endpoints, p \in ParamsArgs(MaxParams) :
    KeyCall("_get_file_path", sp, e, p,
            _get_file_path(sp, e, p, "transient").params_hash)

KeyQuery ==
  \E sp \in Sports, e \in Endpoints, p \in ParamsArgs(MaxParams) :
    KeyCall("_generate_query_key", sp, e, p, _generate_query_key(sp, e, p))

KeyNext == KeyHot \/ KeyFile \/ KeyQuery

KeySpec == KeyInit /\ [][KeyNext]_vars

\* the key function op applied to (sport, endpoint, params)
KeyOf(op, sport, endpoint, params) ==
  CASE op = "_generate_cache_key" -> _generate_cache_key(sport, endpoint, params)
    [] op = "_get_file_path" ->
         _get_file_path(sport, endpoint, params, "transient").params_hash
    [] OTHER -> _generate_query_key(sport, endpoint, params)

KeyOps == {"_generate_cache_key", "_get_file_path", "_generate_query_key"}

\* two params arguments hold the same key/value pairs (None holds none)
SamePairs(p, q) == Range(OrEmptyDict(p)) = Range(OrEmptyDict(q))

\* C13: the hot-cache key, the persistent-cache params hash and the
\* popularity query key do not depend on the insertion order of params:
\* every params argument with the same key/value pairs gives the key that
\* the call returned, and a missing params argument gives the key of {}.
C13_KeysIgnoreInsertionOrder ==
  ret.op \in KeyOps =>
    \A q \in ParamsArgs(MaxParams) :
      SamePairs(q, ret.result.params) =>
        KeyOf(ret.op, ret.result.sport, ret.result.endpoint, q) = ret.result.key

\* C13 witness: a key was generated for a dict whose two items were
\* inserted against the order of their keys.
C13_Witness ==
  /\ ret.op = "_generate_cache_key"
  /\ ~ret.result.params.is_none
  /\ Len(ret.result.params.items) = 2
  /\ KeyRank(ret.result.params.items[1][1]) > KeyRank(ret.result.params.items[2][1])
  /\ ret.result.key
       = _generate_cache_key(ret.result.sport, ret.result.endpoint,
                             ParamsOf(sorted_items(ret.result.params.items)))

\* ------------------------------------------------------------------------
\* Hot cache (redis_client.py)
\* ------------------------------------------------------------------------
\* seconds the clock may advance past T0 in the hot-cache specification
HotElapsed == 1
\* hits one hot-cache entry may count
MaxHits == 2

\* the process configurations: is the backend package importable (the real
\* settings, APIResponse), do auth_manager's own imports succeed, does the
\* Redis server answer
Builds ==
  [backend : BOOLEAN, auth : BOOLEAN, redis_up : BOOLEAN, hash_seed : {1}]

\* RedisCache.connect: with the fallback MockSettings, redis_connection_kwargs
\* is a method, ConnectionPool(**conn_kwargs) raises and the cache is disabled
connect == build.backend /\ build.redis_up

\* "self.enabled and self.redis_client", after connect
HotEnabled == connect

\* the import of APIResponse inside RedisCache.get succeeds
APIResponseImportable == build.backend

\* payloads: a body and the length of its JSON text in bytes
PayloadA == [body |-> "a", bytes |-> 200]
PayloadB == [body |-> "b", bytes |-> 200]
PayloadBig == [body |-> "big", bytes |-> 2000]
PayloadHuge == [body |-> "huge", bytes |-> 8000]
NoPayload == [body |-> "none", bytes |-> 0]
\* the empty list a query without results is answered with
PayloadEmpty == [body |-> "empty", bytes |-> 2]
Payloads == {PayloadA, PayloadB, PayloadBig, PayloadHuge}

\* RedisCache.compression_threshold
hot_compression_threshold == 1024
\* bytes of the JSON text of a CacheEntry besides its data
CacheEntryBytes == 120

\* RedisCache.sport_ttl_strategies of the modelled sports
sport_ttl_strategies ==
  [sp \in Sports |-> [teams |-> 86400, players |-> 21600, games |-> 3600,
                      stats |-> 1800, default |-> 3600]]

\* RedisCache._get_ttl_for_endpoint
_get_ttl_for_endpoint(sport, endpoint) ==
  IF endpoint \in DOMAIN sport_ttl_strategies[sport]
  THEN sport_ttl_strategies[sport][endpoint]
  ELSE sport_ttl_strategies[sport].default

\* CacheEntry as RedisCache.set constructs it
CacheEntry(data, sport, endpoint, t) ==
  [data |-> data, timestamp |-> t, sport |-> sport, endpoint |-> endpoint,
   compressed |-> FALSE, hit_count |-> 0]

\* RedisCache._should_compress on the JSON text of an entry
hot_should_compress(entry) ==
  entry.data.bytes + CacheEntryBytes > hot_compression_threshold

\* what RedisCache.set hands to setex: the JSON text, or its gzip bytes.
\* The text is made before entry.compressed is set, so the stored flag is
\* always False.
hot_cached_data(entry) ==
  IF hot_should_compress(entry)
  THEN [type |-> "bytes", gzip_of |-> entry]
  ELSE [type |-> "str", json_of |-> entry]

\* what _update_hit_count hands to setex: it compresses only when the
\* entry read back says compressed
hit_count_cached_data(entry) ==
  IF entry.compressed
  THEN [type |-> "bytes", gzip_of |-> entry]
  ELSE [type |-> "str", json_of |-> entry]

\* Redis server commands on a database db at time t (expired keys are
\* purged as the clock moves)
RedisTTL(db, key, t) ==
  IF key \in DOMAIN db THEN db[key].expire_at - t ELSE 0 - 2

RedisSETEX(db, key, ttl, value, t) ==
  [k \in (DOMAIN db) \cup {key} |->
     IF k = key THEN [value |-> value, expire_at |-> t + ttl] ELSE db[k]]

RedisDEL(db, keys) == [k \in (DOMAIN db) \ keys |-> db[k]]

RedisExpire(db, t) == [k \in {x \in DOMAIN db : db[x].expire_at > t} |-> db[k]]

\* redis_client.get under decode_responses=True: a missing key is None, a
\* stored str comes back as str, stored gzip bytes are not UTF-8 and the
\* reply raises UnicodeDecodeError
RedisGET(db, key) ==
  IF key \notin DOMAIN db THEN [reply |-> "nil"]
  ELSE IF db[key].value.type = "str"
       THEN [reply |-> "str", entry |-> db[key].value.json_of]
       ELSE [reply |-> "UnicodeDecodeError"]

\* the api_response argument of RedisCache.set: a dict or an APIResponse
DictResponse(data, success) == [kind |-> "dict", success |-> success, data |-> data]
ObjectResponse(data) == [kind |-> "object", success |-> TRUE, data |-> data]

\* RedisCache.set as a function of the database: the new database, the
\* returned value and whether the call raised.  The success test evaluates
\* api_response.get(...) as the default of getattr, which an APIResponse
\* object does not have.
HotSet(db, sport, endpoint, api_response, params, t) ==
  IF ~HotEnabled
  THEN [db |-> db, returned |-> FALSE, raised |-> FALSE]
  ELSE IF api_response.kind = "object"
  THEN [db |-> db, returned |-> FALSE, raised |-> TRUE]
  ELSE IF ~api_response.success
  THEN [db |-> db, returned |-> FALSE, raised |-> FALSE]
  ELSE [db |-> RedisSETEX(db, _generate_cache_key(sport, endpoint, params),
                          _get_ttl_for_endpoint(sport, endpoint),
                          hot_cached_data(CacheEntry(api_response.data, sport,
                                                     endpoint, t)),
                          t),
        returned |-> TRUE, raised |-> FALSE]

\* the value RedisCache.get returns for an entry: an APIResponse, or the
\* dict when APIResponse cannot be imported
HotResponse(entry) ==
  [shape |-> IF APIResponseImportable THEN "APIResponse" ELSE "dict",
   data |-> entry.data, hits |-> entry.hit_count]
NoResponse == [shape |-> "None", data |-> NoPayload, hits |-> 0]

\* _update_hit_count after its ttl read: setex with the ttl that was read
UpdateHitCount(db, key, entry, ttl, t) ==
  IF ttl > 0
  THEN RedisSETEX(db, key, ttl, hit_count_cached_data(entry), t)
  ELSE db

\* RedisCache.get with no time passing between its commands
HotGet(db, sport, endpoint, params, t) ==
  LET key == _generate_cache_key(sport, endpoint, params)
      got == IF HotEnabled THEN RedisGET(db, key) ELSE [reply |-> "nil"]
  IN IF got.reply # "str"
     THEN [db |-> db, response |-> NoResponse]
     ELSE LET entry == [got.entry EXCEPT !.hit_count = @ + 1]
          IN [db |-> UpdateHitCount(db, key, entry, RedisTTL(db, key, t), t),
              response |-> HotResponse(entry)]

\* ------------------------------------------------------------------------
\* Specification of the hot cache with RedisCache.get running command by
\* command in several tasks
\* ------------------------------------------------------------------------
HotTasks == {1, 2}
\* the params and payloads of the hot-cache specification
HotSports == {"nba"}
HotEndpoints == {"career_stats"}
HotParams == {NoneParams}
HotPayloads == {PayloadA, PayloadBig}

NoKey == [absent |-> TRUE]
NoEntry == [absent |-> TRUE]
IdleTask ==
  [pc |-> "idle", key |-> NoKey, entry |-> NoEntry, ttl |-> 0,
   before |-> 0, overwritten |-> FALSE]

HotInit ==
  /\ now = T0 /\ ret = NoResult
  /\ api_keys = EmptyDict /\ key_order = << >> /\ default_key_id = None
  /\ ClientIdle /\ CountersIdle
  /\ build \in Builds
  /\ redis_db = EmptyDict /\ fs = EmptyDict /\ pending = {}
  /\ popular_queries = EmptyDict /\ analytics = NoAnalytics
  /\ hot_tasks = [t \in HotTasks |-> IdleTask] /\ warming = NoWarming

hotFrame ==
  <<kmVars, clientVars, countVars, build, fs, pending, popular_queries, analytics,
    warming>>

\* RedisCache.set: one setex; gets in flight on the key are marked
RedisCacheSet ==
  \E sp \in HotSports, e \in HotEndpoints, p \in HotParams, d \in HotPayloads :
  \E r \in {DictResponse(d, TRUE), DictResponse(d, FALSE), ObjectResponse(d)} :
    LET out == HotSet(redis_db, sp, e, r, p, now)
        key == _generate_cache_key(sp, e, p)
    IN /\ redis_db' = out.db
       /\ hot_tasks' =
            [t \in HotTasks |->
               IF out.returned /\ hot_tasks[t].pc # "idle" /\ hot_tasks[t].key = key
               THEN [hot_tasks[t] EXCEPT !.overwritten = TRUE]
               ELSE hot_tasks[t]]
       /\ ret' = [op |-> "RedisCache.set", key_id |-> None,
                  result |-> [sport |-> sp, endpoint |-> e, params |-> p,
                              data |-> d, returned |-> out.returned,
                              raised |-> out.raised]]
       /\ UNCHANGED <<now, hotFrame>>

GetResult(key, response) ==
  [op |-> "RedisCache.get", key_id |-> None,
   result |-> [key |-> key, response |-> response]]

\* RedisCache.get up to its first command: the entry is read and decoded
RedisCacheGetRead ==
  \E t \in HotTasks, sp \in HotSports, e \in HotEndpoints, p \in HotParams :
    LET key == _generate_cache_key(sp, e, p)
        got == IF HotEnabled THEN RedisGET(redis_db, key) ELSE [reply |-> "nil"]
    IN /\ hot_tasks[t].pc = "idle"
       /\ IF got.reply = "str"
          THEN /\ got.entry.hit_count < MaxHits
               /\ hot_tasks' =
                    [hot_tasks EXCEPT ![t] =
                       [pc |-> "ttl", key |-> key,
                        entry |-> [got.entry EXCEPT !.hit_count = @ + 1],
                        ttl |-> 0, before |-> RedisTTL(redis_db, key, now),
                        overwritten |-> FALSE]]
               /\ UNCHANGED ret
          ELSE /\ ret' = GetResult(key, NoResponse)
               /\ UNCHANGED hot_tasks
       /\ UNCHANGED <<now, redis_db, hotFrame>>

\* _update_hit_count: "ttl = await self.redis_client.ttl(cache_key)"
RedisCacheGetTtl ==
  \E t \in HotTasks :
    /\ hot_tasks[t].pc = "ttl"
    /\ hot_tasks' = [hot_tasks EXCEPT ![t].pc = "setex",
                                      ![t].ttl = RedisTTL(redis_db, hot_tasks[t].key, now)]
    /\ UNCHANGED <<now, ret, redis_db, hotFrame>>

\* _update_hit_count: "if ttl > 0: await self.redis_client.setex(...)", and
\* the return of get
RedisCacheGetWriteBack ==
  \E t \in HotTasks :
    /\ hot_tasks[t].pc = "setex"
    /\ redis_db' = UpdateHitCount(redis_db, hot_tasks[t].key, hot_tasks[t].entry,
                                  hot_tasks[t].ttl, now)
    /\ hot_tasks' = [hot_tasks EXCEPT ![t] = IdleTask]
    /\ ret' = GetResult(hot_tasks[t].key, HotResponse(hot_tasks[t].entry))
    /\ UNCHANGED <<now, hotFrame>>

\* the clock moves; Redis drops the keys that expired
CacheClock(d, elapsed) ==
  /\ now + d <= T0 + elapsed
  /\ now' = now + d
  /\ redis_db' = RedisExpire(redis_db, now + d)

HotTick ==
  /\ CacheClock(1, HotElapsed)
  /\ UNCHANGED <<ret, hot_tasks, hotFrame>>

HotNext ==
  \/ RedisCacheSet \/ RedisCacheGetRead \/ RedisCacheGetTtl
  \/ RedisCacheGetWriteBack \/ HotTick

HotSpec == HotInit /\ [][HotNext]_vars

\* ------------------------------------------------------------------------
\* Properties of the hot cache
\* ------------------------------------------------------------------------
\* C14: a get never leaves an entry with a greater remaining TTL than the
\* entry had when that get began (unless a set overwrote the entry in
\* between), and no step other than a set raises the remaining TTL of any
\* entry: the hit-count write-back of get does not.
C14_GetNeverRaisesTTL ==
  [][/\ \A t \in HotTasks :
          (hot_tasks[t].pc # "idle" /\ hot_tasks'[t].pc = "idle"
             /\ ~hot_tasks[t].overwritten)
            => RedisTTL(redis_db', hot_tasks[t].key, now') <= hot_tasks[t].before
     /\ \A k \in DOMAIN redis_db' :
          RedisTTL(redis_db', k, now') > RedisTTL(redis_db, k, now)
            => ret'.op = "RedisCache.set"]_vars

\* ------------------------------------------------------------------------
\* Persistent cache (file_cache.py)
\* ------------------------------------------------------------------------
\* FileCache.compression_threshold
file_compression_threshold == 5120
\* bytes of the JSON text of a FileCacheEntry besides its data
FileCacheEntryBytes == 220

\* FileCacheEntry as FileCache.set constructs it ("" is -1 for last_accessed)
FileCacheEntry(data, sport, endpoint, params, t, tier_priority) ==
  [data |-> data, timestamp |-> t, sport |-> sport, endpoint |-> endpoint,
   params_hash |-> md5_8(dumps_sort_keys(OrEmptyDict(params))),
   access_count |-> 0, last_accessed |-> 0 - 1, file_size |-> 0,
   compressed |-> FALSE, tier_priority |-> tier_priority]

\* FileCache._should_compress on the serialized entry
file_should_compress(entry) ==
  entry.data.bytes + FileCacheEntryBytes > file_compression_threshold

\* FileCache._serialize_data: the bytes written to the file.  asdict(entry)
\* is taken before compressed and file_size are set, so the stored fields
\* keep the values the entry came with.
_serialize_data(entry) ==
  IF file_should_compress(entry)
  THEN [type |-> "gzip", of |-> [type |-> "json", of |-> entry]]
  ELSE [type |-> "json", of |-> entry]

\* FileCache._deserialize_data: gzip.decompress raises on bytes that are
\* not gzip; bytes that are gzip are neither JSON nor a pickle
_deserialize_data(data, compressed) ==
  IF compressed
  THEN IF data.type = "gzip"
       THEN [raised |-> FALSE, entry |-> data.of.of]
       ELSE [raised |-> TRUE, entry |-> NoEntry]
  ELSE IF data.type = "json"
       THEN [raised |-> FALSE, entry |-> data.of]
       ELSE [raised |-> TRUE, entry |-> NoEntry]

\* a file write: open(path, 'wb') creates or replaces the file
FileWrite(files, path, data) ==
  [f \in (DOMAIN files) \cup {path} |-> IF f = path THEN data ELSE files[f]]

\* Path.unlink of a set of files
FileUnlink(files, paths) == [f \in (DOMAIN files) \ paths |-> files[f]]

\* the length of gzip.compress of n bytes of JSON text
gzip_len(n) == n \div 4

\* entry.file_size as _serialize_data leaves it: the length of what is
\* written
serialized_size(entry) ==
  IF file_should_compress(entry)
  THEN gzip_len(entry.data.bytes + FileCacheEntryBytes)
  ELSE entry.data.bytes + FileCacheEntryBytes

\* FileCache.set as a function of the directory; file_size is what it
\* adds to analytics["total_size"]
FileSet(files, sport, endpoint, data, params, strategy, tier_priority, t) ==
  [files |-> FileWrite(files, _get_file_path(sport, endpoint, params, strategy),
                       _serialize_data(FileCacheEntry(data, sport, endpoint,
                                                      params, t, tier_priority))),
   file_size |-> serialized_size(FileCacheEntry(data, sport, endpoint, params,
                                                t, tier_priority)),
   returned |-> TRUE]

\* FileCache.get as a function of the directory: the data returned (or
\* None) and the detached _update_metadata task it creates
FileGet(files, sport, endpoint, params, strategy, t) ==
  LET path == _get_file_path(sport, endpoint, params, strategy)
  IN IF path \notin DOMAIN files
     THEN [hit |-> FALSE, data |-> NoPayload, tasks |-> {}]
     ELSE LET first == _deserialize_data(files[path], TRUE)
              second == _deserialize_data(files[path], FALSE)
              read == IF first.raised THEN second ELSE first
          IN IF read.raised
             THEN [hit |-> FALSE, data |-> NoPayload, tasks |-> {}]
             ELSE [hit |-> TRUE, data |-> read.entry.data,
                   tasks |-> {[path |-> path,
                               entry |-> [read.entry EXCEPT
                                            !.access_count = @ + 1,
                                            !.last_accessed = t]]}]

\* FileCache._update_metadata, the detached task: the entry is written to
\* the path, whatever became of the file in the meantime
_update_metadata(files, task) ==
  FileWrite(files, task.path, _serialize_data(task.entry))

\* FileCache.invalidate clearing the whole directory when no sport is named
FileInvalidate_WipeAll(files, sport, endpoint, strategy) ==
  IF sport # None /\ endpoint # None /\ strategy # None
  THEN FileUnlink(files, {f \in DOMAIN files :
                            /\ f.sport = sport /\ f.endpoint = endpoint
                            /\ f.strategy = strategy})
  ELSE IF sport # None
  THEN FileUnlink(files, {f \in DOMAIN files : f.sport = sport})
  ELSE EmptyDict
\* FileCache.invalidate
FileInvalidate(files, sport, endpoint, strategy) ==
  IF sport # None /\ endpoint # None /\ strategy # None
  THEN FileUnlink(files, {f \in DOMAIN files :
                            /\ f.sport = sport /\ f.endpoint = endpoint
                            /\ f.strategy = strategy})
  ELSE IF sport # None
  THEN FileUnlink(files, {f \in DOMAIN files : f.sport = sport})
  ELSE files

\* ------------------------------------------------------------------------
\* Specification of the two layers used directly, one call at a time
\* ------------------------------------------------------------------------
\* seconds the clock may advance past T0 in the layer specification
LayerElapsed == 3600
\* files FileCache.set may write in the layer specification
MaxFileSets == 2

LayerSports == {"nba"}
LayerEndpoints == {"career_stats"}
LayerParams == {NoneParams}
LayerPayloads == {PayloadA, PayloadBig, PayloadHuge}

LayerInit ==
  /\ now = T0 /\ ret = NoResult
  /\ api_keys = EmptyDict /\ key_order = << >> /\ default_key_id = None
  /\ ClientIdle /\ CountersIdle
  /\ build \in Builds
  /\ redis_db = EmptyDict /\ fs = EmptyDict /\ pending = {}
  /\ popular_queries = EmptyDict /\ analytics = NoAnalytics
  /\ hot_tasks = << >> /\ warming = NoWarming

layerFrame ==
  <<kmVars, clientVars, countVars, build, popular_queries, hot_tasks, warming>>

LayerHotSet ==
  \E sp \in LayerSports, e \in LayerEndpoints, p \in LayerParams, d \in LayerPayloads :
  \E r \in {DictResponse(d, TRUE), ObjectResponse(d)} :
    LET out == HotSet(redis_db, sp, e, r, p, now)
    IN /\ redis_db' = out.db
       /\ ret' = [op |-> "RedisCache.set", key_id |-> None,
                  result |-> [key |-> _generate_cache_key(sp, e, p),
                              data |-> d, success |-> r.success, at |-> now,
                              returned |-> out.returned, raised |-> out.raised]]
       /\ UNCHANGED <<now, fs, pending, analytics, layerFrame>>

LayerHotGet ==
  \E sp \in LayerSports, e \in LayerEndpoints, p \in LayerParams :
    LET key == _generate_cache_key(sp, e, p)
        out == HotGet(redis_db, sp, e, p, now)
    IN /\ key \in DOMAIN redis_db /\ redis_db[key].value.type = "str"
         => redis_db[key].value.json_of.hit_count < MaxHits
       /\ redis_db' = out.db
       /\ ret' = GetResult(key, out.response)
       /\ UNCHANGED <<now, fs, pending, analytics, layerFrame>>

LayerFileSet ==
  \E sp \in LayerSports, e \in LayerEndpoints, p \in LayerParams, d \in LayerPayloads :
    LET out == FileSet(fs, sp, e, d, p, "transient", "1", now)
    IN /\ analytics.total_files < MaxFileSets
       /\ fs' = out.files
       /\ analytics' = [analytics EXCEPT !.total_files = @ + 1,
                                         !.total_size = @ + out.file_size]
       /\ ret' = [op |-> "FileCache.set", key_id |-> None,
                  result |-> [path |-> _get_file_path(sp, e, p, "transient"),
                              data |-> d, at |-> now, returned |-> out.returned]]
       /\ UNCHANGED <<now, redis_db, pending, layerFrame>>

LayerFileGet ==
  \E sp \in LayerSports, e \in LayerEndpoints, p \in LayerParams :
    LET out == FileGet(fs, sp, e, p, "transient", now)
    IN /\ analytics.file_hit_count + analytics.file_miss_count < MaxHits
       /\ pending' = pending \cup out.tasks
       /\ analytics' = IF out.hit
                       THEN [analytics EXCEPT !.file_hit_count = @ + 1]
                       ELSE [analytics EXCEPT !.file_miss_count = @ + 1]
       /\ ret' = [op |-> "FileCache.get", key_id |-> None,
                  result |-> [path |-> _get_file_path(sp, e, p, "transient"),
                              hit |-> out.hit, data |-> out.data]]
       /\ UNCHANGED <<now, redis_db, fs, layerFrame>>

\* a detached _update_metadata task runs
RunUpdateMetadata ==
  \E task \in pending :
    /\ fs' = _update_metadata(fs, task)
    /\ pending' = pending \ {task}
    /\ ret' = [op |-> "FileCache._update_metadata", key_id |-> None,
               result |-> [path |-> task.path]]

LayerUpdateMetadata ==
  /\ RunUpdateMetadata
  /\ UNCHANGED <<now, redis_db, analytics, layerFrame>>

LayerTick ==
  /\ CacheClock(3600, LayerElapsed)
  /\ UNCHANGED <<ret, fs, pending, analytics, layerFrame>>

LayerNext ==
  \/ LayerHotSet \/ LayerHotGet \/ LayerFileSet \/ LayerFileGet
  \/ LayerUpdateMetadata \/ LayerTick

LayerSpec == LayerInit /\ [][LayerNext]_vars

\* ------------------------------------------------------------------------
\* Properties of the two layers
\* ------------------------------------------------------------------------
\* C15: in each layer alone, a get that directly follows the set of a
\* successful payload under the same key (no other call, task or clock
\* movement in between) returns the payload that was set, whatever its
\* size.
C15_SetThenGetRoundTrip ==
  [][/\ (/\ HotEnabled
         /\ ret.op = "RedisCache.set" /\ ret.result.success
         /\ ret.result.at = now'
         /\ ret'.op = "RedisCache.get" /\ ret'.result.key = ret.result.key)
          => ret'.result.response.data = ret.result.data
     /\ (/\ ret.op = "FileCache.set"
         /\ ret.result.at = now'
         /\ ret'.op = "FileCache.get" /\ ret'.result.path = ret.result.path)
          => ret'.result.hit /\ ret'.result.data = ret.result.data]_vars

\* ------------------------------------------------------------------------
\* Orchestrator (multi_cache_manager.py)
\* ------------------------------------------------------------------------
\* "from backend.src.adapters.external.auth_manager import APITier" succeeds
AUTH_AVAILABLE == build.backend /\ build.auth

\* the values of the APITier in scope in multi_cache_manager: the one of
\* auth_manager, or the fallback enum
CacheAPITier ==
  IF AUTH_AVAILABLE THEN Tiers ELSE {"free", "all-star", "goat", "enterprise"}

\* the members MultiCacheManager.__init__ names as keys of tier_strategies
TierStrategyKeys == {"free", "all-star", "goat", "enterprise"}

\* MultiCacheManager.tier_strategies (ttl_multiplier in tenths)
tier_strategies ==
  [t \in TierStrategyKeys |->
     [redis_priority |-> t # "free", file_cache_enabled |-> TRUE,
      warming_enabled |-> t # "free",
      ttl_multiplier |-> CASE t = "free" -> 10 [] t = "all-star" -> 12
                           [] t = "goat" -> 15 [] OTHER -> 20]]

\* MultiCacheManager() returns: naming a member APITier does not have
\* raises AttributeError, and the module-level multi_cache is never made
ManagerConstructed == TierStrategyKeys \subseteq CacheAPITier

\* the words an endpoint name contains, of those the manager looks for
EndpointWords(endpoint) ==
  CASE endpoint = "career_stats" -> {"career_stats", "career"}
    [] endpoint = "historical_stats" -> {"historical_stats", "historical"}
    [] endpoint = "season_stats" -> {"season_stats", "season"}
    [] endpoint = "archives" -> {"archives"}
    [] OTHER -> {}

historical_endpoints == {"historical_stats", "season_stats", "career_stats", "archives"}

CacheStrategies == {"redis_only", "file_only", "layered", "historical", "tier_optimized"}

\* _determine_cache_strategy with the tier branch taken without the
\* authentication module and its redis_priority test inverted
_determine_cache_strategy_Inverted(tier, endpoint, force_strategy) ==
  IF force_strategy # None THEN force_strategy
  ELSE IF endpoint # None /\ EndpointWords(endpoint) \cap historical_endpoints # {}
  THEN "historical"
  ELSE IF tier # None
  THEN LET tier_config == IF tier \in DOMAIN tier_strategies
                          THEN tier_strategies[tier]
                          ELSE tier_strategies["free"]
       IN IF tier_config.redis_priority THEN "file_only" ELSE "layered"
  ELSE "layered"

\* MultiCacheManager._determine_cache_strategy; redis_cache and file_cache
\* are both objects whenever the module imports
_determine_cache_strategy(tier, endpoint, force_strategy) ==
  IF force_strategy # None THEN force_strategy
  ELSE IF endpoint # None /\ EndpointWords(endpoint) \cap historical_endpoints # {}
  THEN "historical"
  ELSE IF tier # None /\ AUTH_AVAILABLE
  THEN LET tier_config == IF tier \in DOMAIN tier_strategies
                          THEN tier_strategies[tier]
                          ELSE tier_strategies["free"]
       IN IF tier_config.redis_priority THEN "layered" ELSE "file_only"
  ELSE "layered"

\* MultiCacheManager._get_file_cache_strategy
_get_file_cache_strategy(endpoint) ==
  IF {"historical", "career"} \cap EndpointWords(endpoint) # {} THEN "historical"
  ELSE IF "season" \in EndpointWords(endpoint) THEN "seasonal"
  ELSE IF {"daily", "today"} \cap EndpointWords(endpoint) # {} THEN "daily"
  ELSE "transient"

\* the redis block entered under every strategy
StrategyLayers_RedisAlways(strategy) ==
  {"redis"}
  \cup (IF strategy \in {"file_only", "layered", "historical"} THEN {"file"} ELSE {})

\* the layers get and set touch under a strategy
StrategyLayers(strategy) ==
  (IF strategy \in {"redis_only", "layered", "tier_optimized"} THEN {"redis"} ELSE {})
  \cup (IF strategy \in {"file_only", "layered", "historical"} THEN {"file"} ELSE {})

\* tier_priority = getattr(tier, 'value', 1) if tier else 1
tier_priority_of(tier) == IF tier # None THEN tier ELSE "1"

\* the tier_breakdown bookkeeping of MultiCacheManager.get: the tier's
\* requests counter, and its hits counter on a hit
TierBreakdown(breakdown, tier, hit) ==
  IF tier = None THEN breakdown
  ELSE LET old == IF tier \in DOMAIN breakdown THEN breakdown[tier]
                  ELSE [requests |-> 0, hits |-> 0]
       IN [k \in (DOMAIN breakdown) \cup {tier} |->
             IF k = tier
             THEN [requests |-> old.requests + 1,
                   hits |-> old.hits + (IF hit THEN 1 ELSE 0)]
             ELSE breakdown[k]]

\* _track_query_access counting an access of a known query only
_track_query_access_KnownOnly(queries, query_key, sport, endpoint, params, tier, t) ==
  LET known == query_key \in DOMAIN queries
      info == IF known THEN queries[query_key]
              ELSE [sport |-> sport, endpoint |-> endpoint, params |-> params,
                    hit_count |-> 0, first_access |-> t, last_access |-> t,
                    tier_users |-> {}]
      after == [info EXCEPT !.hit_count = IF known THEN @ + 1 ELSE @,
                            !.last_access = t,
                            !.tier_users = IF tier # None THEN @ \cup {tier} ELSE @]
  IN [q \in (DOMAIN queries) \cup {query_key} |->
        IF q = query_key THEN after ELSE queries[q]]

\* MultiCacheManager._track_query_access
_track_query_access(queries, query_key, sport, endpoint, params, tier, t) ==
  LET known == query_key \in DOMAIN queries
      info == IF known THEN queries[query_key]
              ELSE [sport |-> sport, endpoint |-> endpoint, params |-> params,
                    hit_count |-> 0, first_access |-> t, last_access |-> t,
                    tier_users |-> {}]
      after == [info EXCEPT !.hit_count = @ + 1, !.last_access = t,
                            !.tier_users = IF tier # None THEN @ \cup {tier} ELSE @]
  IN [q \in (DOMAIN queries) \cup {query_key} |->
        IF q = query_key THEN after ELSE queries[q]]

\* RedisCache.invalidate deleting the keys of every params of the endpoint
HotInvalidate_EveryParams(db, sport, endpoint, params) ==
  IF HotEnabled
  THEN RedisDEL(db, {k \in DOMAIN db : k.sport = sport /\ k.endpoint = endpoint})
  ELSE db

\* RedisCache.invalidate
HotInvalidate(db, sport, endpoint, params) ==
  IF HotEnabled THEN RedisDEL(db, {_generate_cache_key(sport, endpoint, params)})
  ELSE db

\* RedisCache.invalidate_sport: keys "hoophead:v1:<sport>:*" are deleted
HotInvalidateSport(db, sport) ==
  IF HotEnabled THEN RedisDEL(db, {k \in DOMAIN db : k.sport = sport}) ELSE db

\* what MultiCacheManager.get returns for a hot hit: the .data of an
\* APIResponse, or the whole response when it is a dict
HotHitData(response) ==
  IF response.shape = "APIResponse" THEN response.data
  ELSE [body |-> "response dict", bytes |-> response.data.bytes]

\* ------------------------------------------------------------------------
\* Specification of strategy resolution: _determine_cache_strategy called
\* on its own, as the unit tests call it
\* ------------------------------------------------------------------------
StrategyEndpoints ==
  {"teams", "players", "career_stats", "historical_stats", "season_stats", "archives"}

StrategyInit == LayerInit

Resolve ==
  \E tier \in CacheAPITier \cup {None}, e \in StrategyEndpoints \cup {None},
     force \in CacheStrategies \cup {None} :
    /\ ManagerConstructed
    /\ ret' = [op |-> "_determine_cache_strategy", key_id |-> None,
               result |-> [tier |-> tier, endpoint |-> e, force_strategy |-> force,
                           strategy |-> _determine_cache_strategy(tier, e, force)]]
    /\ UNCHANGED <<cacheVars, now, kmVars, clientVars, countVars>>

StrategyNext == Resolve

StrategySpec == StrategyInit /\ [][StrategyNext]_vars

\* ------------------------------------------------------------------------
\* Specification of the orchestrator
\* ------------------------------------------------------------------------
\* calls of MultiCacheManager.get
MaxGets == 1
\* calls of MultiCacheManager.set
MaxSets == 2

OrchSports == {"nba"}
OrchEndpoints == Endpoints
OrchParams == {NoneParams}
OrchPayloads == {PayloadA, PayloadB}
OrchTiers == {"free", "enterprise"}

OrchInit == LayerInit

\* RedisCache.get answering an unanswered command with an empty response
\* instead of None
HotGetOnServer_Uncaught(hot_ok, db, sport, endpoint, params, t) ==
  IF hot_ok THEN HotGet(db, sport, endpoint, params, t)
  ELSE [db |-> db, response |-> [shape |-> "dict", data |-> NoPayload, hits |-> 0]]

\* RedisCache.get against a server that answers or not: the connection
\* error of redis_client.get is caught and None is returned
HotGetOnServer(hot_ok, db, sport, endpoint, params, t) ==
  IF hot_ok THEN HotGet(db, sport, endpoint, params, t)
  ELSE [db |-> db, response |-> NoResponse]

\* the file layer read whatever the hot layer answered
FileTried_Always(cache_strategy, redis_hit) ==
  "file" \in StrategyLayers(cache_strategy)

\* MultiCacheManager.get reaches its file block: the redis block did not
\* return, and the strategy names the file layer
FileTried(cache_strategy, redis_hit) ==
  ~redis_hit /\ "file" \in StrategyLayers(cache_strategy)

\* what no call of the orchestrator touches
callFrame == <<now, kmVars, clientVars, countVars, build, hot_tasks>>

orchFrame == <<callFrame, warming>>

\* "if file_data is not None"
Truthy_NotNone(data) == data # NoPayload

\* "if file_data:": None and the empty list are falsy
Truthy(data) == data \notin {NoPayload, PayloadEmpty}

\* the miss block counting whatever the file block found
CountMiss_FileUnchecked(redis_hit, file_hit) == ~redis_hit

\* MultiCacheManager.get reaches its miss block: neither the redis block
\* nor the file block returned
CountMiss(redis_hit, file_hit) == ~redis_hit /\ ~file_hit

\* multi_cache.get(sport, endpoint, params, tier, strategy), the Redis
\* server answering the call or not
multi_cache_get_under(sp, e, p, tier, strategy, hot_ok) ==
    LET cache_strategy == _determine_cache_strategy(tier, e, strategy)
        hot == IF "redis" \in StrategyLayers(cache_strategy)
               THEN HotGetOnServer(hot_ok, redis_db, sp, e, p, now)
               ELSE [db |-> redis_db, response |-> NoResponse]
        redis_hit == hot.response.shape # "None"
        file_tried == FileTried(cache_strategy, redis_hit)
        file == IF file_tried
                THEN FileGet(fs, sp, e, p, _get_file_cache_strategy(e), now)
                ELSE [hit |-> FALSE, data |-> NoPayload, tasks |-> {}]
        file_hit == file.hit /\ Truthy(file.data)
    IN /\ ManagerConstructed
       /\ popular_queries' = _track_query_access(popular_queries,
                               _generate_query_key(sp, e, p), sp, e, p, tier, now)
       /\ redis_db' = hot.db
       /\ pending' = pending \cup file.tasks
       /\ analytics' = [analytics EXCEPT
            !.total_requests = @ + 1,
            !.redis_hits = IF redis_hit THEN @ + 1 ELSE @,
            !.file_hits = IF file_hit THEN @ + 1 ELSE @,
            !.cache_misses = IF CountMiss(redis_hit, file_hit) THEN @ + 1 ELSE @,
            !.file_hit_count = IF file_tried /\ file.hit THEN @ + 1 ELSE @,
            !.file_miss_count = IF file_tried /\ ~file.hit THEN @ + 1 ELSE @,
            !.tier_breakdown = TierBreakdown(@, tier, redis_hit \/ file_hit)]
       /\ ret' = [op |-> "MultiCacheManager.get", key_id |-> None,
                  result |-> [sport |-> sp, endpoint |-> e, params |-> p,
                              tier |-> tier, strategy |-> cache_strategy,
                              hot_ok |-> hot_ok, raised |-> FALSE,
                              hit |-> redis_hit \/ file_hit,
                              source |-> IF redis_hit THEN "redis"
                                         ELSE IF file_hit THEN "file" ELSE "none",
                              data |-> IF redis_hit THEN HotHitData(hot.response)
                                       ELSE IF file_hit THEN file.data
                                       ELSE NoPayload]]
       /\ UNCHANGED fs

\* multi_cache.get(sport, endpoint, params, tier)
multi_cache_get(sp, e, p, tier, hot_ok) ==
  multi_cache_get_under(sp, e, p, tier, None, hot_ok)

\* MultiCacheManager.get, called at most limit times, with the Redis
\* server answering the call or not as drawn from hot_outcomes, for a
\* caller of one of tiers
MultiCacheGet(limit, hot_outcomes, tiers) ==
  \E sp \in OrchSports, e \in OrchEndpoints, p \in OrchParams, tier \in tiers,
     hot_ok \in hot_outcomes :
    /\ analytics.total_requests < limit
    /\ multi_cache_get(sp, e, p, tier, hot_ok)
    /\ UNCHANGED orchFrame

OrchGet == MultiCacheGet(MaxGets, {TRUE}, OrchTiers)

\* the file block of set skipped when the redis block raised
SetAttemptsFile_UnlessHotRaised(cache_strategy, hot) ==
  "file" \in StrategyLayers(cache_strategy) /\ ~hot.raised

\* MultiCacheManager.set reaches its file block: the redis block catches
\* what it raises, and the strategy names the file layer
SetAttemptsFile(cache_strategy, hot) ==
  "file" \in StrategyLayers(cache_strategy)

\* FileCache.set on a directory that can or cannot be written: the error
\* of mkdir or open is caught and False is returned
FileSetOnDisk(disk_ok, files, sport, endpoint, data, params, strategy, prio, t) ==
  IF disk_ok
  THEN FileSet(files, sport, endpoint, data, params, strategy, prio, t)
  ELSE [files |-> files, file_size |-> 0, returned |-> FALSE]

\* multi_cache.set(sport, endpoint, data, params, tier, strategy,
\* api_response), the directory writable or not
multi_cache_set_under(sp, e, p, tier, strategy, d, api_response, disk_ok) ==
    LET cache_strategy == _determine_cache_strategy(tier, e, strategy)
        response_obj == IF api_response # None THEN ObjectResponse(d)
                        ELSE DictResponse(d, TRUE)
        hot == IF "redis" \in StrategyLayers(cache_strategy)
               THEN HotSet(redis_db, sp, e, response_obj, p, now)
               ELSE [db |-> redis_db, returned |-> FALSE, raised |-> FALSE]
        file == IF SetAttemptsFile(cache_strategy, hot)
                THEN FileSetOnDisk(disk_ok, fs, sp, e, d, p,
                                   _get_file_cache_strategy(e),
                                   tier_priority_of(tier), now)
                ELSE [files |-> fs, file_size |-> 0, returned |-> FALSE]
    IN /\ ManagerConstructed
       /\ redis_db' = hot.db
       /\ fs' = file.files
       /\ analytics' = [analytics EXCEPT
            !.total_files = IF file.returned THEN @ + 1 ELSE @,
            !.total_size = @ + file.file_size]
       /\ ret' = [op |-> "MultiCacheManager.set", key_id |-> None,
                  result |-> [sport |-> sp, endpoint |-> e, params |-> p,
                              tier |-> tier, strategy |-> cache_strategy,
                              data |-> d, api_response |-> api_response,
                              disk_ok |-> disk_ok, raised |-> FALSE,
                              redis_success |-> hot.returned,
                              file_success |-> file.returned]]
       /\ UNCHANGED <<pending, popular_queries>>

\* multi_cache.set(sport, endpoint, data, params, tier, api_response)
multi_cache_set(sp, e, p, tier, d, api_response, disk_ok) ==
  multi_cache_set_under(sp, e, p, tier, None, d, api_response, disk_ok)

\* MultiCacheManager.set, storing at most limit files, with the directory
\* writable or not as drawn from disk_outcomes, for a caller of one of tiers
MultiCacheSet(limit, disk_outcomes, tiers) ==
  \E sp \in OrchSports, e \in OrchEndpoints, p \in OrchParams, tier \in tiers,
     d \in OrchPayloads, api_response \in {None, "APIResponse"},
     disk_ok \in disk_outcomes :
    /\ analytics.total_files < limit
    /\ multi_cache_set(sp, e, p, tier, d, api_response, disk_ok)
    /\ UNCHANGED orchFrame

OrchSet == MultiCacheSet(MaxSets, {TRUE}, OrchTiers)

\* multi_cache.invalidate(sport, endpoint, params, strategy)
multi_cache_invalidate(sp, e, p, strategy) ==
    LET redis_invalidate == strategy # "file_only"
        file_invalidate == strategy # "redis_only"
    IN /\ ManagerConstructed
       /\ redis_db' = IF redis_invalidate
                      THEN IF sp # None /\ e # None
                           THEN HotInvalidate(redis_db, sp, e, p)
                           ELSE IF sp # None
                           THEN HotInvalidateSport(redis_db, sp)
                           ELSE redis_db
                      ELSE redis_db
       /\ fs' = IF file_invalidate
                THEN FileInvalidate(fs, sp, e,
                       IF e # None THEN _get_file_cache_strategy(e) ELSE None)
                ELSE fs
       /\ ret' = [op |-> "MultiCacheManager.invalidate", key_id |-> None,
                  result |-> [sport |-> sp, endpoint |-> e, params |-> p,
                              strategy |-> strategy, raised |-> FALSE]]
       /\ UNCHANGED <<pending, popular_queries, analytics>>

OrchInvalidate ==
  \E sp \in OrchSports \cup {None}, e \in OrchEndpoints \cup {None},
     p \in OrchParams, strategy \in {None, "redis_only", "file_only"} :
    /\ multi_cache_invalidate(sp, e, p, strategy)
    /\ UNCHANGED orchFrame

OrchUpdateMetadata ==
  /\ RunUpdateMetadata
  /\ UNCHANGED <<redis_db, popular_queries, analytics, orchFrame>>

OrchNext ==
  \/ OrchGet \/ OrchSet \/ OrchInvalidate \/ OrchUpdateMetadata

OrchSpec == OrchInit /\ [][OrchNext]_vars

\* ------------------------------------------------------------------------
\* Specification of repeated gets over a cache that holds at most the
\* entry of one earlier set
\* ------------------------------------------------------------------------
\* calls of MultiCacheManager.get in the tracking specification
MaxTrackedGets == 3

\* the layers after MultiCacheManager.set(NBA, "teams", PayloadA, tier=FREE)
AfterOneSet ==
  [redis_db |-> HotSet(EmptyDict, "nba", "teams", DictResponse(PayloadA, TRUE),
                       NoneParams, T0).db,
   fs |-> FileSet(EmptyDict, "nba", "teams", PayloadA, NoneParams,
                  _get_file_cache_strategy("teams"), tier_priority_of("free"),
                  T0).files,
   analytics |-> [NoAnalytics EXCEPT
                    !.total_files = 1,
                    !.total_size = FileSet(EmptyDict, "nba", "teams", PayloadA,
                                           NoneParams,
                                           _get_file_cache_strategy("teams"),
                                           tier_priority_of("free"), T0).file_size]]

TrackInit ==
  /\ now = T0 /\ ret = NoResult
  /\ api_keys = EmptyDict /\ key_order = << >> /\ default_key_id = None
  /\ ClientIdle /\ CountersIdle
  /\ build \in Builds
  /\ \/ redis_db = EmptyDict /\ fs = EmptyDict /\ analytics = NoAnalytics
     \/ /\ ManagerConstructed
        /\ redis_db = AfterOneSet.redis_db /\ fs = AfterOneSet.fs
        /\ analytics = AfterOneSet.analytics
  /\ pending = {} /\ popular_queries = EmptyDict
  /\ hot_tasks = << >> /\ warming = NoWarming

TrackGet == MultiCacheGet(MaxTrackedGets, {TRUE}, OrchTiers)

TrackNext == TrackGet \/ OrchUpdateMetadata

TrackSpec == TrackInit /\ [][TrackNext]_vars

\* ------------------------------------------------------------------------
\* Specification of sets over layers that may fail: the hot layer per
\* build and response shape, the directory per call
\* ------------------------------------------------------------------------
\* files stored by MultiCacheManager.set in the failing-layer specification
MaxStored == 1

FailInit == LayerInit

FailSet == MultiCacheSet(MaxStored, BOOLEAN, {"enterprise"})

FailGet == MultiCacheGet(MaxGets, BOOLEAN, {"enterprise"})

FailInvalidate == OrchInvalidate

FailUpdateMetadata == OrchUpdateMetadata

FailNext == FailSet \/ FailGet \/ FailInvalidate \/ FailUpdateMetadata

FailSpec == FailInit /\ [][FailNext]_vars

\* ------------------------------------------------------------------------
\* Specification of gets and sets of a FREE caller, the strategy
\* resolved from tier and endpoint or forced by the strategy argument
\* ------------------------------------------------------------------------
\* calls of MultiCacheManager.get
MaxShieldGets == 3
\* files MultiCacheManager.set may store
MaxShieldSets == 1

ShieldStrategies == {None, "file_only"}
ShieldPayloads == {PayloadA, PayloadEmpty}

ShieldInit == LayerInit

ShieldGet ==
  \E e \in OrchEndpoints, strategy \in ShieldStrategies :
    /\ analytics.total_requests < MaxShieldGets
    /\ multi_cache_get_under("nba", e, NoneParams, "free", strategy, TRUE)
    /\ UNCHANGED orchFrame

ShieldSet ==
  \E e \in OrchEndpoints, strategy \in ShieldStrategies, d \in ShieldPayloads :
    /\ analytics.total_files < MaxShieldSets
    /\ multi_cache_set_under("nba", e, NoneParams, "free", strategy, d, None, TRUE)
    /\ UNCHANGED orchFrame

ShieldUpdateMetadata == OrchUpdateMetadata

ShieldNext == ShieldGet \/ ShieldSet \/ ShieldUpdateMetadata

ShieldSpec == ShieldInit /\ [][ShieldNext]_vars

\* ------------------------------------------------------------------------
\* Specification of one endpoint queried with and without params
\* ------------------------------------------------------------------------
\* calls of MultiCacheManager.get
MaxVariantGets == 1
\* files MultiCacheManager.set may store
MaxVariantSets == 2

\* params=None and params={"page": 2}
VariantParams == {NoneParams, ParamsOf(<< <<"page", 2>> >>)}

VariantInit == LayerInit

VariantSet ==
  \E p \in VariantParams :
    /\ analytics.total_files < MaxVariantSets
    /\ multi_cache_set("nba", "teams", p, "enterprise", PayloadA, None, TRUE)
    /\ UNCHANGED orchFrame

VariantGet ==
  \E p \in VariantParams :
    /\ analytics.total_requests < MaxVariantGets
    /\ multi_cache_get("nba", "teams", p, "enterprise", TRUE)
    /\ UNCHANGED orchFrame

VariantInvalidate ==
  \E e \in {"teams", None}, p \in VariantParams,
     strategy \in {None, "redis_only", "file_only"} :
    /\ multi_cache_invalidate("nba", e, p, strategy)
    /\ UNCHANGED orchFrame

VariantUpdateMetadata == OrchUpdateMetadata

VariantNext ==
  VariantSet \/ VariantGet \/ VariantInvalidate \/ VariantUpdateMetadata

VariantSpec == VariantInit /\ [][VariantNext]_vars

\* ------------------------------------------------------------------------
\* Eviction sweep of the persistent cache (FileCache._cleanup_old_files)
\* ------------------------------------------------------------------------
SecondsPerDay == 86400

\* FileCache.retention_policies, in days
retention_policies ==
  [s \in FileCacheStrategies |->
     CASE s = "historical" -> 365 [] s = "seasonal" -> 180
       [] s = "daily" -> 30 [] OTHER -> 7]

\* the entry a file holds
StoredEntry(content) == IF content.type = "json" THEN content.of ELSE content.of.of

\* stat() of a cache file whose metadata tasks leave the mtime alone
FileStat_CreationTime(files, path) ==
  LET entry == StoredEntry(files[path])
  IN [mtime |-> entry.timestamp,
      size |-> serialized_size(entry),
      strategy |-> path.strategy]

\* stat() of a cache file: it was last written by set at the entry's
\* timestamp, or by the metadata task of the get that last read it
FileStat(files, path) ==
  LET entry == StoredEntry(files[path])
  IN [mtime |-> IF entry.last_accessed >= 0 THEN entry.last_accessed
                ELSE entry.timestamp,
      size |-> serialized_size(entry),
      strategy |-> path.strategy]

\* (current_time - mtime).days > retention_days
Expired(files, path, t) ==
  (t - FileStat(files, path).mtime) \div SecondsPerDay
    > retention_policies[FileStat(files, path).strategy]

\* the listings cache_files.sort(key=mtime) can produce: oldest first,
\* files of equal mtime in the order rglob met them
OldestFirst(files) ==
  {listing \in [1..Cardinality(DOMAIN files) -> DOMAIN files] :
     /\ \A i, j \in DOMAIN listing : i < j =>
          /\ listing[i] # listing[j]
          /\ FileStat(files, listing[i]).mtime <= FileStat(files, listing[j]).mtime}

\* the loop of _cleanup_old_files over the sorted listing: a file past its
\* retention is unlinked, and after each file, deleted or not, the loop
\* stops once total_size is at most 80% of the cap
RECURSIVE SweepLoop(_, _, _, _, _)
SweepLoop(listing, files, total_size, max_size_bytes, t) ==
  IF listing = << >> THEN [files |-> files, total_size |-> total_size]
  ELSE LET path == Head(listing)
           after == IF Expired(files, path, t)
                    THEN [files |-> FileUnlink(files, {path}),
                          total_size |-> total_size - FileStat(files, path).size]
                    ELSE [files |-> files, total_size |-> total_size]
       IN IF after.total_size * 10 <= max_size_bytes * 8 THEN after
          ELSE SweepLoop(Tail(listing), after.files, after.total_size,
                         max_size_bytes, t)

\* FileCache._cleanup_old_files
_cleanup_old_files(files, total_size, max_size_bytes, t, listing) ==
  SweepLoop(listing, files, total_size, max_size_bytes, t)

\* ------------------------------------------------------------------------
\* Specification of the sweep: sets into a FileCache with a small cap,
\* the clock moving by half years, and sweeps
\* ------------------------------------------------------------------------
\* max_size_bytes of the FileCache of this specification
SweepCapBytes == 3000
\* days the clock may advance past T0
SweepElapsedDays == 366
\* files FileCache.set may write
MaxSweepFiles == 2

SweepTargets ==
  {<<"teams", "transient">>, <<"season_stats", "seasonal">>,
   <<"career_stats", "historical">>}
SweepPayloads == {PayloadA, PayloadHuge}

SweepInit == LayerInit

SweepSet ==
  \E target \in SweepTargets, d \in SweepPayloads :
    LET out == FileSet(fs, "nba", target[1], d, NoneParams, target[2], "1", now)
    IN /\ analytics.total_files < MaxSweepFiles
       /\ fs' = out.files
       /\ analytics' = [analytics EXCEPT !.total_files = @ + 1,
                                         !.total_size = @ + out.file_size]
       /\ ret' = [op |-> "FileCache.set", key_id |-> None,
                  result |-> [path |-> _get_file_path("nba", target[1], NoneParams,
                                                      target[2]),
                              data |-> d, at |-> now, returned |-> out.returned]]
       /\ UNCHANGED <<now, redis_db, pending, layerFrame>>

SweepCleanup ==
  \E listing \in OldestFirst(fs) :
    LET out == _cleanup_old_files(fs, analytics.total_size, SweepCapBytes, now,
                                  listing)
    IN /\ fs' = out.files
       /\ analytics' = [analytics EXCEPT !.total_size = out.total_size]
       /\ ret' = [op |-> "FileCache._cleanup_old_files", key_id |-> None,
                  result |-> [at |-> now,
                              files_removed |-> Cardinality(DOMAIN fs)
                                                  - Cardinality(DOMAIN out.files)]]
       /\ UNCHANGED <<now, redis_db, pending, layerFrame>>

SweepTick ==
  /\ CacheClock(183 * SecondsPerDay, SweepElapsedDays * SecondsPerDay)
  /\ UNCHANGED <<ret, fs, pending, analytics, layerFrame>>

SweepNext == SweepSet \/ SweepCleanup \/ SweepTick

SweepSpec == SweepInit /\ [][SweepNext]_vars

\* ------------------------------------------------------------------------
\* Specification of an ageing entry: FileCache set, get and invalidate on
\* one query under the DAILY strategy, the metadata tasks, sweeps, and
\* the clock moving by ten days
\* ------------------------------------------------------------------------
\* days the clock may advance past T0
AgeElapsedDays == 50
\* files FileCache.set may write
MaxAgeFiles == 2
\* calls of FileCache.get
MaxAgeGets == 2

AgeInit == LayerInit

AgeSet ==
  LET out == FileSet(fs, "nba", "teams", PayloadA, NoneParams, "daily", "1", now)
  IN /\ analytics.total_files < MaxAgeFiles
     /\ fs' = out.files
     /\ analytics' = [analytics EXCEPT !.total_files = @ + 1,
                                       !.total_size = @ + out.file_size]
     /\ ret' = [op |-> "FileCache.set", key_id |-> None,
                result |-> [path |-> _get_file_path("nba", "teams", NoneParams, "daily"),
                            data |-> PayloadA, at |-> now, returned |-> out.returned]]
     /\ UNCHANGED <<now, redis_db, pending, layerFrame>>

AgeGet ==
  LET out == FileGet(fs, "nba", "teams", NoneParams, "daily", now)
  IN /\ analytics.file_hit_count + analytics.file_miss_count < MaxAgeGets
     /\ pending' = pending \cup out.tasks
     /\ analytics' = IF out.hit
                     THEN [analytics EXCEPT !.file_hit_count = @ + 1]
                     ELSE [analytics EXCEPT !.file_miss_count = @ + 1]
     /\ ret' = [op |-> "FileCache.get", key_id |-> None,
                result |-> [path |-> _get_file_path("nba", "teams", NoneParams, "daily"),
                            hit |-> out.hit, data |-> out.data]]
     /\ UNCHANGED <<now, redis_db, fs, layerFrame>>

AgeInvalidate ==
  /\ fs' = FileInvalidate(fs, "nba", "teams", "daily")
  /\ ret' = [op |-> "FileCache.invalidate", key_id |-> None,
             result |-> [sport |-> "nba", endpoint |-> "teams", strategy |-> "daily"]]
  /\ UNCHANGED <<now, redis_db, pending, analytics, layerFrame>>

AgeUpdateMetadata == LayerUpdateMetadata

AgeCleanup == SweepCleanup

AgeTick ==
  /\ CacheClock(10 * SecondsPerDay, AgeElapsedDays * SecondsPerDay)
  /\ UNCHANGED <<ret, fs, pending, analytics, layerFrame>>

AgeNext ==
  \/ AgeSet \/ AgeGet \/ AgeInvalidate \/ AgeUpdateMetadata \/ AgeCleanup
  \/ AgeTick

AgeSpec == AgeInit /\ [][AgeNext]_vars

\* ------------------------------------------------------------------------
\* Cache warming (cache_warming.py, MultiCacheManager.warm_cache)
\* ------------------------------------------------------------------------
\* the import of BallDontLieClient from the backend package succeeds
CLIENT_AVAILABLE == build.backend

\* MultiCacheManager.warming_config: CacheWarming() with the default hours
warming_config ==
  [enabled |-> TRUE, popular_queries_limit |-> 100,
   warming_schedule_hours |-> {6, 12, 18}, min_hit_count |-> 5]

\* datetime.now().hour
current_hour(t) == (t \div 3600) % 24

PopularQuery(sport, endpoint, params, priority, tier_relevance) ==
  [sport |-> sport, endpoint |-> endpoint, params |-> params,
   priority |-> priority, tier_relevance |-> tier_relevance]

EveryTier == {"free", "all-star", "goat", "enterprise"}
PaidTiers == {"all-star", "goat", "enterprise"}
Search(name) == ParamsOf(<< <<"search", name>> >>)

\* CacheWarmingManager._define_popular_queries
popular_query_catalog ==
  << PopularQuery("nba", "teams", NoneParams, 5, EveryTier),
     PopularQuery("nba", "players", Search("LeBron"), 4, PaidTiers),
     PopularQuery("nba", "players", Search("Curry"), 4, PaidTiers),
     PopularQuery("nba", "players", Search("Durant"), 4, PaidTiers),
     PopularQuery("nba", "games", ParamsOf(<< <<"seasons", "this year">> >>), 3,
                  PaidTiers),
     PopularQuery("nfl", "teams", NoneParams, 5, EveryTier),
     PopularQuery("nfl", "players", Search("Mahomes"), 4, PaidTiers),
     PopularQuery("nfl", "players", Search("Brady"), 4, PaidTiers),
     PopularQuery("nfl", "players", Search("Allen"), 3, PaidTiers),
     PopularQuery("mlb", "teams", NoneParams, 5, EveryTier),
     PopularQuery("mlb", "players", Search("Ohtani"), 5, PaidTiers),
     PopularQuery("mlb", "players", Search("Judge"), 4, PaidTiers),
     PopularQuery("mlb", "players", Search("Trout"), 4, PaidTiers),
     PopularQuery("nhl", "teams", NoneParams, 5, EveryTier),
     PopularQuery("nhl", "players", Search("McDavid"), 5, PaidTiers),
     PopularQuery("nhl", "players", Search("Ovechkin"), 4, PaidTiers),
     PopularQuery("nhl", "players", Search("Crosby"), 4, PaidTiers),
     PopularQuery("epl", "teams", NoneParams, 3, {"goat", "enterprise"}) >>

\* CacheWarmingManager.get_queries_for_tier: the relevant entries, sorted
\* by priority descending, entries of equal priority in catalog order
get_queries_for_tier(tier) ==
  LET Relevant(q) == tier \in q.tier_relevance
      relevant_queries == SelectSeq(popular_query_catalog, Relevant)
      P5(q) == q.priority = 5
      P4(q) == q.priority = 4
      P3(q) == q.priority = 3
      P2(q) == q.priority = 2
      P1(q) == q.priority = 1
  IN SelectSeq(relevant_queries, P5) \o SelectSeq(relevant_queries, P4)
       \o SelectSeq(relevant_queries, P3) \o SelectSeq(relevant_queries, P2)
       \o SelectSeq(relevant_queries, P1)

\* s[:n]
FirstN(s, n) == SubSeq(s, 1, IF n < Len(s) THEN n ELSE Len(s))

\* MultiCacheManager._get_popular_queries_for_warming: the lists it can
\* return, queries of equal hit count in the order the dict holds them
_get_popular_queries_for_warming(queries, tier) ==
  LET candidates ==
        {k \in DOMAIN queries :
           /\ queries[k].hit_count >= warming_config.min_hit_count
           /\ tier = None \/ tier \in queries[k].tier_users}
  IN {FirstN([i \in DOMAIN listing |->
                [sport |-> queries[listing[i]].sport,
                 endpoint |-> queries[listing[i]].endpoint,
                 params |-> queries[listing[i]].params]],
             warming_config.popular_queries_limit) :
        listing \in
          {l \in [1..Cardinality(candidates) -> candidates] :
             \A i, j \in DOMAIN l : i < j =>
               /\ l[i] # l[j]
               /\ queries[l[i]].hit_count >= queries[l[j]].hit_count}}

\* the hour test of warm_cache disregarding the schedule
NotScheduled_AnyHour(force, hour) == FALSE

\* warm_cache returns before doing anything: warming is disabled or the
\* hour is not one of the schedule, and the call is not forced
NotScheduled(force, hour) ==
  \/ ~warming_config.enabled /\ ~force
  \/ ~force /\ hour \notin warming_config.warming_schedule_hours

NoResults ==
  [total_queries |-> 0, successful |-> 0, failed |-> 0, already_cached |-> 0]

\* a task that has not called the warmer
IdleCall ==
  [pc |-> "idle", kind |-> None, tier |-> None, force |-> FALSE, max_queries |-> 0,
   start_time |-> 0, queries |-> << >>, i |-> 0, api_data |-> NoPayload,
   results |-> NoResults, warmed_count |-> 0, details |-> << >>, called |-> << >>]

\* the calls made for one query so far
QueryCalls(probe, fetch, set) == [probe |-> probe, fetch |-> fetch, set |-> set]

\* the record of the query being processed is replaced
CalledNow(call, probe, fetch, set) ==
  [call.called EXCEPT ![Len(call.called)] = QueryCalls(probe, fetch, set)]

\* the counting of _execute_warming_queries with the except branch
\* counting nothing
CountQuery_ErrorsDropped(results, status) ==
  CASE status = "already_cached" -> [results EXCEPT !.already_cached = @ + 1]
    [] status = "warmed" -> [results EXCEPT !.successful = @ + 1]
    [] status = "error" -> results
    [] OTHER -> [results EXCEPT !.failed = @ + 1]

\* the bucket _execute_warming_queries counts a query in, by the status
\* it appends to details
CountQuery(results, status) ==
  CASE status = "already_cached" -> [results EXCEPT !.already_cached = @ + 1]
    [] status = "warmed" -> [results EXCEPT !.successful = @ + 1]
    [] OTHER -> [results EXCEPT !.failed = @ + 1]

\* the loop moves to the next query, or leaves
NextQuery(call) ==
  [call EXCEPT !.i = @ + 1, !.api_data = NoPayload,
               !.pc = IF call.i + 1 > Len(call.queries) THEN "finish" ELSE "probe"]

\* a query of _execute_warming_queries ends with a status
QueryDone(call, status) ==
  NextQuery([call EXCEPT !.results = CountQuery(@, status),
                         !.details = Append(@, [query |-> call.i, status |-> status])])

\* the fetch made whatever the probe found
ProbeSkips_Never(hit) == FALSE

\* "if hit_info.hit: ... continue"
ProbeSkips(hit) == hit

\* "if api_data and api_data.success"
FetchSucceeded(answer) == answer = "success"

\* what follows the loop: warm_tier_specific_cache updates warming_stats,
\* warm_cache counts a warming cycle
AfterLoop(w, c) ==
  LET call == w.cycles[c]
  IN IF call.pc # "finish" THEN w
     ELSE IF call.kind = "warm_cache"
     THEN [w EXCEPT !.cycles[c].pc = "done", !.warming_cycles = @ + 1]
     ELSE [w EXCEPT !.cycles[c].pc = "done",
                    !.warming_stats =
                      [total_warming_cycles |-> @.total_warming_cycles + 1,
                       queries_warmed |-> @.queries_warmed + call.results.successful,
                       queries_failed |-> @.queries_failed + call.results.failed]]

\* a call entering its loop over queries
Entered(kind, tier, force, max_queries, queries, t) ==
  [IdleCall EXCEPT !.pc = IF queries = << >> THEN "finish" ELSE "probe",
                   !.kind = kind, !.tier = tier, !.force = force,
                   !.max_queries = max_queries, !.start_time = t,
                   !.queries = queries, !.i = 1,
                   !.results = [NoResults EXCEPT !.total_queries = Len(queries)]]

\* a call that returned before its loop
ReturnedEarly(kind, tier, force, t) ==
  [IdleCall EXCEPT !.pc = "returned", !.kind = kind, !.tier = tier,
                   !.force = force, !.start_time = t]

\* ------------------------------------------------------------------------
\* Specification of warming: tasks that each call the warmer once, at
\* any time, the clock moving by six hours
\* ------------------------------------------------------------------------
WarmTasks == {"task1", "task2"}
WarmTiers == {"free"}
\* the largest max_queries a task passes
MaxQueries == 1
\* hours the clock may advance past T0
WarmElapsedHours == 6
FetchOutcomes == {"success", "unsuccessful", "raised"}

\* the popularity index and the counters after five gets of NBA teams by
\* a FREE caller on an empty cache
RECURSIVE AfterGets(_)
AfterGets(n) ==
  IF n = 0 THEN [popular_queries |-> EmptyDict, analytics |-> NoAnalytics]
  ELSE LET before == AfterGets(n - 1)
       IN [popular_queries |->
             _track_query_access(before.popular_queries,
                                 _generate_query_key("nba", "teams", NoneParams),
                                 "nba", "teams", NoneParams, "free", T0),
           analytics |->
             [before.analytics EXCEPT
                !.total_requests = @ + 1, !.cache_misses = @ + 1,
                !.file_miss_count = @ + 1,
                !.tier_breakdown = TierBreakdown(@, "free", FALSE)]]

WarmInit ==
  /\ now = T0 /\ ret = NoResult
  /\ api_keys = EmptyDict /\ key_order = << >> /\ default_key_id = None
  /\ ClientIdle /\ CountersIdle
  /\ build \in Builds
  /\ redis_db = EmptyDict /\ fs = EmptyDict /\ pending = {}
  /\ \/ popular_queries = EmptyDict /\ analytics = NoAnalytics
     \/ /\ ManagerConstructed
        /\ popular_queries = AfterGets(warming_config.min_hit_count).popular_queries
        /\ analytics = AfterGets(warming_config.min_hit_count).analytics
  /\ hot_tasks = << >>
  /\ warming = [NoWarming EXCEPT !.cycles = [c \in WarmTasks |-> IdleCall]]

cacheState == <<redis_db, fs, pending, popular_queries, analytics>>

\* warm_tier_specific_cache up to its loop
WarmTierStart ==
  \E c \in WarmTasks, tier \in WarmTiers, max_queries \in 1..MaxQueries :
    LET relevant_queries == FirstN(get_queries_for_tier(tier), max_queries)
        available == CLIENT_AVAILABLE
        call == IF available
                THEN Entered("warm_tier_specific_cache", tier, FALSE, max_queries,
                             relevant_queries, now)
                ELSE ReturnedEarly("warm_tier_specific_cache", tier, FALSE, now)
    IN /\ ManagerConstructed
       /\ warming.cycles[c].pc = "idle"
       /\ warming' = AfterLoop([warming EXCEPT !.cycles[c] = call], c)
       /\ ret' = [op |-> "warm_tier_specific_cache", key_id |-> None,
                  result |-> [task |-> c,
                              status |-> IF available THEN "started" ELSE "failed"]]
       /\ UNCHANGED <<cacheState, callFrame>>

\* MultiCacheManager.warm_cache up to its loop
WarmCacheStart ==
  \E c \in WarmTasks, tier \in WarmTiers, force \in BOOLEAN :
  \E popular \in _get_popular_queries_for_warming(popular_queries, tier) :
    LET call == IF NotScheduled(force, current_hour(now))
                THEN ReturnedEarly("warm_cache", tier, force, now)
                ELSE Entered("warm_cache", tier, force, 0, popular, now)
    IN /\ ManagerConstructed
       /\ warming.cycles[c].pc = "idle"
       /\ warming' = AfterLoop([warming EXCEPT !.cycles[c] = call], c)
       /\ ret' = [op |-> "MultiCacheManager.warm_cache", key_id |-> None,
                  result |-> [task |-> c, status |-> call.pc]]
       /\ UNCHANGED <<cacheState, callFrame>>

\* the probe of the loop: "await multi_cache.get(...)" and what follows
\* until the next await
WarmProbe ==
  \E c \in WarmTasks :
    LET call == warming.cycles[c]
        q == call.queries[call.i]
        probed(hit) ==
          [call EXCEPT !.called = Append(@, QueryCalls(IF hit THEN "hit" ELSE "miss",
                                                   "not called", "not called"))]
        after(hit) ==
          IF call.kind = "warm_cache"
          THEN NextQuery([probed(hit) EXCEPT !.warmed_count = @ + 1])
          ELSE IF ProbeSkips(hit) THEN QueryDone(probed(hit), "already_cached")
          ELSE [probed(hit) EXCEPT !.pc = "fetch"]
    IN /\ call.pc = "probe"
       /\ multi_cache_get(q.sport, q.endpoint, q.params, call.tier, TRUE)
       /\ warming' = AfterLoop([warming EXCEPT !.cycles[c] = after(ret'.result.hit)], c)
       /\ UNCHANGED callFrame

\* the external fetch answers: successfully, unsuccessfully, or it raises
WarmFetch ==
  \E c \in WarmTasks, answer \in FetchOutcomes :
    LET call == warming.cycles[c]
        fetched == [call EXCEPT !.called =
                      CalledNow(call, call.called[Len(call.called)].probe, answer,
                                "not called")]
        after == IF FetchSucceeded(answer)
                 THEN [fetched EXCEPT !.pc = "set", !.api_data = PayloadA]
                 ELSE QueryDone(fetched, IF answer = "raised" THEN "error"
                                         ELSE "api_failed")
    IN /\ call.pc = "fetch"
       /\ warming' = AfterLoop([warming EXCEPT !.cycles[c] = after], c)
       /\ ret' = [op |-> "client.get_teams", key_id |-> None,
                  result |-> [task |-> c, query |-> call.i, outcome |-> answer]]
       /\ UNCHANGED <<cacheState, callFrame>>

\* "await multi_cache.set(..., api_response=api_data)" and what follows
WarmStore ==
  \E c \in WarmTasks, disk_ok \in BOOLEAN :
    LET call == warming.cycles[c]
        q == call.queries[call.i]
        stored == [call EXCEPT !.called =
                     CalledNow(call, "miss", "success", "called")]
        after(redis_success, file_success) ==
          QueryDone(stored, IF redis_success \/ file_success THEN "warmed"
                            ELSE "cache_failed")
    IN /\ call.pc = "set"
       /\ multi_cache_set(q.sport, q.endpoint, q.params, call.tier, call.api_data,
                          "APIResponse", disk_ok)
       /\ warming' = AfterLoop([warming EXCEPT !.cycles[c] =
                                  after(ret'.result.redis_success,
                                        ret'.result.file_success)], c)
       /\ UNCHANGED callFrame

WarmTick ==
  /\ CacheClock(6 * 3600, WarmElapsedHours * 3600)
  /\ UNCHANGED <<ret, fs, pending, popular_queries, analytics, warming,
                 kmVars, clientVars, countVars, build, hot_tasks>>

WarmNext ==
  \/ WarmTierStart \/ WarmCacheStart \/ WarmProbe \/ WarmFetch \/ WarmStore
  \/ WarmTick

WarmSpec == WarmInit /\ [][WarmNext]_vars

\* ------------------------------------------------------------------------
\* Properties of the orchestrator
\* ------------------------------------------------------------------------
SameQuery(a, b) ==
  /\ a.sport = b.sport /\ a.endpoint = b.endpoint
  /\ a.params = b.params /\ a.tier = b.tier

\* C16: with both layers available, a MultiCacheManager.get that directly
\* follows a MultiCacheManager.set with the same sport, endpoint, params
\* and tier is a hit, returns the payload that was set, and names as its
\* source one of the layers of the resolved strategy.
C16_SetThenGetHitsStoredPayload ==
  [][(/\ HotEnabled
      /\ ret.op = "MultiCacheManager.set"
      /\ ret'.op = "MultiCacheManager.get"
      /\ SameQuery(ret.result, ret'.result))
       => /\ ret'.result.hit
          /\ ret'.result.data = ret.result.data
          /\ ret'.result.source \in StrategyLayers(ret'.result.strategy)]_vars

\* no entry of the sport in the hot cache or in the persistent cache
NoEntriesOf(sport) ==
  /\ \A k \in DOMAIN redis_db : k.sport # sport
  /\ \A f \in DOMAIN fs : f.sport # sport

SportInvalidated(sport) ==
  /\ ret.op = "MultiCacheManager.invalidate"
  /\ ret.result.sport = sport /\ ret.result.endpoint = None
  /\ ret.result.strategy = None

\* C17: when invalidate(sport = S) has completed no entry of S is left in
\* either layer, and from then on, as long as no set for S is made, none
\* appears and every get for S is a miss.
C17_InvalidateSportHoldsUntilSet ==
  /\ [](\A sp \in OrchSports : SportInvalidated(sp) => NoEntriesOf(sp))
  /\ [][\A sp \in OrchSports :
          (/\ NoEntriesOf(sp)
           /\ ~(ret'.op = "MultiCacheManager.set" /\ ret'.result.sport = sp))
            => /\ NoEntriesOf(sp)'
               /\ (ret'.op = "MultiCacheManager.get" /\ ret'.result.sport = sp)
                    => ~ret'.result.hit]_vars

\* C18: an invalidate call that names no sport, with or without an
\* endpoint, leaves the contents of the hot cache and of the persistent
\* cache as they were.
C18_InvalidateWithoutSportDeletesNothing ==
  [][(/\ ret'.op = "MultiCacheManager.invalidate"
      /\ ret'.result.sport = None)
       => /\ redis_db' = redis_db
          /\ fs' = fs]_vars

\* an invalidate naming an endpoint but no sport has run over two
\* non-empty layers
C18_Witness ==
  /\ ret.op = "MultiCacheManager.invalidate"
  /\ ret.result.sport = None /\ ret.result.endpoint = "teams"
  /\ DOMAIN redis_db # {} /\ DOMAIN fs # {}

\* TierLimits.cache_priority; the fallback enum lists its members in the
\* same order
cachePriority(tier) ==
  CASE tier \in Tiers -> tier_limits[tier].cache_priority
    [] tier = "all-star" -> 2
    [] tier = "goat" -> 3

IsHistoricalEndpoint(endpoint) ==
  EndpointWords(endpoint) \cap historical_endpoints # {}

Resolved ==
  /\ ret.op = "_determine_cache_strategy"
  /\ ret.result.force_strategy = None
  /\ ret.result.tier # None /\ ret.result.endpoint # None

\* C19: with no forced strategy, _determine_cache_strategy returns
\* HISTORICAL for a historical endpoint whatever the tier, and for any
\* other endpoint FILE_ONLY for the FREE tier and LAYERED for a higher one.
C19_StrategyByTierAndEndpoint ==
  Resolved =>
    ret.result.strategy =
      IF IsHistoricalEndpoint(ret.result.endpoint) THEN "historical"
      ELSE IF ret.result.tier = "free" THEN "file_only"
      ELSE "layered"

\* C20: the strategy resolved for a tier uses at least as many layers as
\* the strategy resolved, for the same endpoint, for any tier of lower
\* cache priority.
C20_LayersMonotoneInPriority ==
  Resolved =>
    \A lower \in CacheAPITier :
      cachePriority(lower) < cachePriority(ret.result.tier)
        => Cardinality(StrategyLayers(ret.result.strategy))
             >= Cardinality(StrategyLayers(
                  _determine_cache_strategy(lower, ret.result.endpoint, None)))

\* the strategy of the highest tier has been resolved for an endpoint that
\* is not historical
C20_Witness ==
  /\ Resolved
  /\ ret.result.tier = "enterprise" /\ ret.result.endpoint = "teams"
  /\ ret.result.strategy = "layered"
  /\ _determine_cache_strategy("free", "teams", None) = "layered"

\* the hot entry of a query can be served: present and readable
HotServable(sp, e, p) ==
  /\ HotEnabled
  /\ RedisGET(redis_db, _generate_cache_key(sp, e, p)).reply = "str"

FileCounters(a) == <<a.file_hit_count, a.file_miss_count, a.file_hits>>

\* C21: under LAYERED, a get whose hot entry can be served reports the
\* hot layer as its source and leaves the persistent cache untouched
\* (files, pending metadata tasks, hit and miss counters); the persistent
\* cache is read only by a get whose hot probe did not hit.
C21_HotFirstStopAtHit ==
  [][(/\ ret'.op = "MultiCacheManager.get"
      /\ analytics'.total_requests = analytics.total_requests + 1
      /\ ret'.result.strategy = "layered")
       => /\ HotServable(ret'.result.sport, ret'.result.endpoint, ret'.result.params)
               => ret'.result.source = "redis"
          /\ ret'.result.source = "redis"
               => /\ fs' = fs /\ pending' = pending
                  /\ FileCounters(analytics') = FileCounters(analytics)
          /\ FileCounters(analytics') # FileCounters(analytics)
               => ~HotServable(ret'.result.sport, ret'.result.endpoint,
                               ret'.result.params)]_vars

\* a layered get served by the hot layer while the persistent cache also
\* holds the entry
C21_Witness ==
  /\ ret.op = "MultiCacheManager.get"
  /\ ret.result.strategy = "layered" /\ ret.result.source = "redis"
  /\ _get_file_path(ret.result.sport, ret.result.endpoint, ret.result.params,
                    _get_file_cache_strategy(ret.result.endpoint)) \in DOMAIN fs

\* a step that is a call of MultiCacheManager.get
GetStep == ret'.op = "MultiCacheManager.get" /\ vars' # vars

CountOf(breakdown, tier, field) ==
  IF tier \in DOMAIN breakdown THEN breakdown[tier][field] ELSE 0

\* C22: every MultiCacheManager.get, hit or miss, creates or increments
\* the popularity record of its query by exactly one and adds the caller's
\* tier to it, leaves the other records alone, adds one to the total
\* request counter and to the tier's request counter, and adds one to the
\* tier's hit counter exactly when the call is a hit.
C22_GetAlwaysTracksQuery ==
  [][GetStep =>
       LET r == ret'.result
           q == _generate_query_key(r.sport, r.endpoint, r.params)
           before == IF q \in DOMAIN popular_queries
                     THEN popular_queries[q].hit_count ELSE 0
           users == IF q \in DOMAIN popular_queries
                    THEN popular_queries[q].tier_users ELSE {}
       IN /\ q \in DOMAIN popular_queries'
          /\ popular_queries'[q].hit_count = before + 1
          /\ popular_queries'[q].tier_users = users \cup {r.tier}
          /\ \A o \in DOMAIN popular_queries :
               o # q => /\ o \in DOMAIN popular_queries'
                        /\ popular_queries'[o] = popular_queries[o]
          /\ analytics'.total_requests = analytics.total_requests + 1
          /\ CountOf(analytics'.tier_breakdown, r.tier, "requests")
               = CountOf(analytics.tier_breakdown, r.tier, "requests") + 1
          /\ CountOf(analytics'.tier_breakdown, r.tier, "hits")
               = CountOf(analytics.tier_breakdown, r.tier, "hits")
                   + (IF r.hit THEN 1 ELSE 0)]_vars

\* a second access of a query has been tracked, and it was a hit: two
\* accesses on its record, and one more hit for the caller's tier
C22_Witness ==
  /\ ret.op = "MultiCacheManager.get" /\ ret.result.hit
  /\ LET q == _generate_query_key(ret.result.sport, ret.result.endpoint,
                                  ret.result.params)
     IN /\ q \in DOMAIN popular_queries
        /\ popular_queries[q].hit_count = 2
        /\ popular_queries[q].tier_users = {"free", "enterprise"}
  /\ CountOf(analytics.tier_breakdown, ret.result.tier, "requests") = 1
  /\ CountOf(analytics.tier_breakdown, ret.result.tier, "hits") = 1

\* a step that is a call of MultiCacheManager.set
SetStep == ret'.op = "MultiCacheManager.set" /\ vars' # vars

\* the payload held by the hot entry under a key, readable or not
HotStored(db, key) ==
  IF key \notin DOMAIN db THEN NoPayload
  ELSE IF db[key].value.type = "str" THEN db[key].value.json_of.data
  ELSE db[key].value.gzip_of.data

\* the payload held by the file at a path
FileStored(files, path) ==
  IF path \notin DOMAIN files THEN NoPayload
  ELSE IF files[path].type = "json" THEN files[path].of.data
  ELSE files[path].of.of.data

\* C23: MultiCacheManager.set never raises; each layer of the strategy is
\* attempted whatever happened in the other one, so a writable directory
\* receives the payload also when the hot write failed or raised and a
\* connected hot cache receives it also when the file write failed; each
\* element of the returned pair is True exactly when that layer stored the
\* payload, and a layer that reports False was left as it was.
C23_SetLayersIndependent ==
  [][SetStep =>
       LET r == ret'.result
           layers == StrategyLayers(r.strategy)
           key == _generate_cache_key(r.sport, r.endpoint, r.params)
           path == _get_file_path(r.sport, r.endpoint, r.params,
                                  _get_file_cache_strategy(r.endpoint))
       IN /\ ~r.raised
          /\ ("file" \in layers /\ r.disk_ok) => r.file_success
          /\ ("redis" \in layers /\ HotEnabled /\ r.api_response = None)
               => r.redis_success
          /\ r.file_success => "file" \in layers /\ FileStored(fs', path) = r.data
          /\ r.redis_success => "redis" \in layers /\ HotStored(redis_db', key) = r.data
          /\ ~r.file_success => fs' = fs
          /\ ~r.redis_success => redis_db' = redis_db]_vars

\* a set whose hot write raised has stored its payload in the file layer,
\* the connected hot cache still holding the payload of an earlier set
C23_Witness ==
  /\ ret.op = "MultiCacheManager.set"
  /\ ret.result.strategy = "layered" /\ ret.result.api_response # None
  /\ ~ret.result.redis_success /\ ret.result.file_success
  /\ HotEnabled
  /\ HotStored(redis_db, _generate_cache_key(ret.result.sport, ret.result.endpoint,
                                             ret.result.params)) # ret.result.data
  /\ HotStored(redis_db, _generate_cache_key(ret.result.sport, ret.result.endpoint,
                                             ret.result.params)) # NoPayload

\* a step that is a call of MultiCacheManager.invalidate
InvalidateStep == ret'.op = "MultiCacheManager.invalidate" /\ vars' # vars

SweepStep ==
  /\ ret'.op = "FileCache._cleanup_old_files"
  /\ now' = now
  /\ vars' # vars

RECURSIVE SizeOf(_, _)
SizeOf(files, paths) ==
  IF paths = {} THEN 0
  ELSE LET path == CHOOSE x \in paths : TRUE
       IN FileStat(files, path).size + SizeOf(files, paths \ {path})

\* the bytes the directory holds
DirectorySize(files) == SizeOf(files, DOMAIN files)

\* C25: after a sweep no file past the retention window of its strategy
\* remains, whatever the size of the store and however many files are
\* past it; and a file inside its window is still there when the store is
\* under its cap.
C25_SweepRemovesAllExpired ==
  [][SweepStep =>
       /\ \A path \in DOMAIN fs' : ~Expired(fs', path, now')
       /\ DirectorySize(fs) <= SweepCapBytes
            => \A path \in DOMAIN fs :
                 ~Expired(fs, path, now) => path \in DOMAIN fs']_vars

\* C26: a sweep over a store above its cap leaves it at no more than 80%
\* of the cap, or empty.
C26_SweepEvictsUnderSizePressure ==
  [][(SweepStep /\ DirectorySize(fs) > SweepCapBytes
        /\ analytics.total_size > SweepCapBytes)
       => \/ DirectorySize(fs') * 10 <= SweepCapBytes * 8
          \/ DOMAIN fs' = {}]_vars

\* ------------------------------------------------------------------------
\* Properties of warming
\* ------------------------------------------------------------------------
\* the call is inside its loop over queries
InFlight(call) == call.pc \in {"probe", "fetch", "set"}

TierCycle(call) == call.kind = "warm_tier_specific_cache"

\* C27: at most one warming cycle is in flight at any time: no two tasks
\* are inside the loop of a warming call together.
C27_AtMostOneCycleInFlight ==
  \A c1, c2 \in DOMAIN warming.cycles :
    c1 # c2 => ~(InFlight(warming.cycles[c1]) /\ InFlight(warming.cycles[c2]))

\* C28: in a warming cycle the external fetcher is called for a query only
\* if the probe of that query missed, multi_cache.set is called for it
\* only after its fetch returned success, and a query the probe found
\* cached has neither a fetch nor a set.
C28_FetchOnlyAfterMissSetOnlyAfterSuccess ==
  \A c \in DOMAIN warming.cycles :
    \A k \in DOMAIN warming.cycles[c].called :
      LET made == warming.cycles[c].called[k]
      IN TierCycle(warming.cycles[c]) =>
           /\ made.fetch # "not called" => made.probe = "miss"
           /\ made.set # "not called" => made.fetch = "success"
           /\ made.probe = "hit" =>
                made.fetch = "not called" /\ made.set = "not called"

\* one finished cycle probed, missed, fetched successfully and stored;
\* another finished cycle found its query cached
C28_Witness ==
  \E c1, c2 \in DOMAIN warming.cycles :
    /\ TierCycle(warming.cycles[c1]) /\ warming.cycles[c1].pc = "done"
    /\ warming.cycles[c1].called = << QueryCalls("miss", "success", "called") >>
    /\ TierCycle(warming.cycles[c2]) /\ warming.cycles[c2].pc = "done"
    /\ warming.cycles[c2].called = << QueryCalls("hit", "not called", "not called") >>

\* the call was made unforced at an hour outside the schedule
OutsideSchedule(call) ==
  /\ call.pc # "idle" /\ ~call.force
  /\ current_hour(call.start_time) \notin warming_config.warming_schedule_hours

\* the call probed nothing, fetched nothing, stored nothing and was not
\* counted as a cycle
DidNothing(call) == call.pc = "returned" /\ call.called = << >>

\* C29 as stated: a warming cycle that is not forced, at an hour outside
\* the allow-list, probes, fetches and writes nothing and is not counted
\* as a completed cycle.
C29_UnforcedOutsideHoursDoesNothing ==
  \A c \in DOMAIN warming.cycles :
    OutsideSchedule(warming.cycles[c]) => DidNothing(warming.cycles[c])

\* C29, amended: a MultiCacheManager.warm_cache call that is not forced,
\* at an hour outside warming_schedule_hours, probes nothing and leaves
\* warming_cycles alone; a forced warm_cache call runs at any hour; the
\* cycles counted are the warm_cache calls that ran.
C29_WarmCacheGatedByHourUnlessForced ==
  /\ \A c \in DOMAIN warming.cycles :
       LET call == warming.cycles[c]
       IN call.kind = "warm_cache" =>
            /\ OutsideSchedule(call) => DidNothing(call)
            /\ call.force => call.pc # "returned"
  /\ warming.warming_cycles =
       Cardinality({c \in DOMAIN warming.cycles :
                      /\ warming.cycles[c].kind = "warm_cache"
                      /\ warming.cycles[c].pc = "done"})

\* at hour 0 one warm_cache call returned at once and a forced one probed
\* a popular query and was counted
C29_Witness ==
  \E c1, c2 \in DOMAIN warming.cycles :
    /\ warming.cycles[c1].kind = "warm_cache"
    /\ OutsideSchedule(warming.cycles[c1]) /\ DidNothing(warming.cycles[c1])
    /\ warming.cycles[c2].kind = "warm_cache" /\ warming.cycles[c2].force
    /\ current_hour(warming.cycles[c2].start_time) = 0
    /\ warming.cycles[c2].pc = "done" /\ warming.cycles[c2].called # << >>
    /\ warming.warming_cycles = 1

\* C30: at the end of every warming cycle already_cached + successful +
\* failed is the number of selected queries, the first max_queries
\* entries of get_queries_for_tier(tier), whatever happened to a query.
C30_BucketsSumToSelected ==
  \A c \in DOMAIN warming.cycles :
    LET call == warming.cycles[c]
    IN (TierCycle(call) /\ call.pc = "done") =>
         /\ call.results.already_cached + call.results.successful
              + call.results.failed = call.results.total_queries
         /\ call.results.total_queries
              = Len(FirstN(get_queries_for_tier(call.tier), call.max_queries))
         /\ call.results.total_queries = Len(call.details)

\* a cycle ended by an exception of the fetcher and a cycle ended by both
\* layers rejecting the write, each with its query counted as failed
C30_Witness ==
  \E c1, c2 \in DOMAIN warming.cycles :
    /\ TierCycle(warming.cycles[c1]) /\ warming.cycles[c1].pc = "done"
    /\ warming.cycles[c1].details = << [query |-> 1, status |-> "error"] >>
    /\ warming.cycles[c1].results.failed = 1
    /\ TierCycle(warming.cycles[c2]) /\ warming.cycles[c2].pc = "done"
    /\ warming.cycles[c2].details = << [query |-> 1, status |-> "cache_failed"] >>
    /\ warming.cycles[c2].results.failed = 1

\* ------------------------------------------------------------------------
\* Properties of the rate-limit windows
\* ------------------------------------------------------------------------
\* C31: a check_rate_limit that observes now >= the reset time of a window
\* already opened sets the window's counter to 0 and moves the reset time
\* forward by exactly one window length; while now < the reset time the
\* check leaves counter and reset time alone.
C31_WindowAdvancesByOneLength ==
  [][\A k \in DOMAIN api_keys :
       (Called("check_rate_limit") /\ k \in DOMAIN api_keys'
          /\ api_keys'[k] # api_keys[k]
          /\ api_keys[k].minute_reset_time > 0 /\ api_keys[k].hourly_reset_time > 0)
       => /\ IF now >= api_keys[k].minute_reset_time
             THEN /\ api_keys'[k].minute_requests = 0
                  /\ api_keys'[k].minute_reset_time
                       = api_keys[k].minute_reset_time + MinuteWindow
             ELSE /\ api_keys'[k].minute_requests = api_keys[k].minute_requests
                  /\ api_keys'[k].minute_reset_time = api_keys[k].minute_reset_time
          /\ IF now >= api_keys[k].hourly_reset_time
             THEN /\ api_keys'[k].hourly_requests = 0
                  /\ api_keys'[k].hourly_reset_time
                       = api_keys[k].hourly_reset_time + HourWindow
             ELSE /\ api_keys'[k].hourly_requests = api_keys[k].hourly_requests
                  /\ api_keys'[k].hourly_reset_time = api_keys[k].hourly_reset_time]_vars

\* ------------------------------------------------------------------------
\* Properties of reads racing with writes
\* ------------------------------------------------------------------------
\* the payload of a value the hot cache stores
HotStoredData(value) ==
  IF value.type = "str" THEN value.json_of.data ELSE value.gzip_of.data

\* C32: a hot-cache get that interleaves with a set on its key can lose
\* hit counts only: the hit-count write-back that ends the get leaves
\* under every key the payload that was there, and stores no key anew.
C32_WriteBackKeepsNewestPayload ==
  [][\A t \in HotTasks :
       (hot_tasks[t].pc = "setex" /\ hot_tasks'[t].pc = "idle")
       => \A k \in DOMAIN redis_db' :
            /\ k \in DOMAIN redis_db
            /\ HotStoredData(redis_db'[k].value) = HotStoredData(redis_db[k].value)]_vars

\* C33: a persistent-cache read changes access metadata only: the detached
\* metadata write-back of a get, whenever it runs, leaves in every file the
\* payload that was there and creates no file.
C33_MetadataWriteBackKeepsPayload ==
  [][(ret'.op = "FileCache._update_metadata" /\ pending' # pending)
       => \A path \in DOMAIN fs' :
            /\ path \in DOMAIN fs
            /\ StoredEntry(fs'[path]).data = StoredEntry(fs[path]).data]_vars

\* ------------------------------------------------------------------------
\* Properties of the strategy's layers
\* ------------------------------------------------------------------------
PersistentOnly(strategy) == strategy \in {"file_only", "historical"}

\* C34: a get or a set executed under the file-only strategy or the
\* historical strategy leaves the hot cache as it was: keys, payloads,
\* expiry times and hit counts; the set returns redis_success = false.
C34_PersistentOnlyShieldsHotCache ==
  [][((GetStep \/ SetStep) /\ PersistentOnly(ret'.result.strategy))
       => /\ redis_db' = redis_db
          /\ SetStep => ~ret'.result.redis_success]_vars

\* a get under the file-only strategy was served by the file layer while
\* the hot cache, connected, held the entry of an earlier layered set
C34_Witness ==
  /\ ret.op = "MultiCacheManager.get" /\ ret.result.strategy = "file_only"
  /\ ret.result.tier = "free" /\ ret.result.source = "file"
  /\ HotStored(redis_db, _generate_cache_key("nba", ret.result.endpoint, NoneParams))
       # NoPayload

\* ------------------------------------------------------------------------
\* Properties of the orchestrator's counters
\* ------------------------------------------------------------------------
OutcomeCounters(a) == <<a.redis_hits, a.file_hits, a.cache_misses>>

\* one of the three outcome counters grew by one, the others stayed
OneOutcomeCounted(a, b) ==
  \E i \in 1..3 :
    \A j \in 1..3 :
      OutcomeCounters(b)[j] = OutcomeCounters(a)[j] + (IF i = j THEN 1 ELSE 0)

\* C35: between gets, total_requests = redis_hits + file_hits +
\* cache_misses and every tier's hits are at most its requests; each get
\* adds one to total_requests and to exactly one of redis_hits, file_hits
\* and cache_misses.
C35_OutcomeCountersPartitionRequests ==
  /\ [](/\ analytics.total_requests
             = analytics.redis_hits + analytics.file_hits + analytics.cache_misses
        /\ \A tier \in DOMAIN analytics.tier_breakdown :
             analytics.tier_breakdown[tier].hits
               <= analytics.tier_breakdown[tier].requests)
  /\ [][GetStep => /\ analytics'.total_requests = analytics.total_requests + 1
                   /\ OneOutcomeCounted(analytics, analytics')]_vars

\* three gets ended one in each outcome
C35_Witness ==
  /\ analytics.total_requests = 3
  /\ OutcomeCounters(analytics) = <<1, 1, 1>>
  /\ analytics.tier_breakdown["free"].requests = 3
  /\ analytics.tier_breakdown["free"].hits = 2

\* ------------------------------------------------------------------------
\* Properties of the default key
\* ------------------------------------------------------------------------
\* C36: default_key_id is None exactly when no key is registered and
\* otherwise the id of a registered key; the key added to a manager that
\* holds none becomes the default; set_default_key with an id that is not
\* registered returns False and leaves the default as it was.
C36_DefaultKeyIsRegisteredOrNone ==
  /\ [](/\ default_key_id = None <=> DOMAIN api_keys = {}
        /\ default_key_id # None => default_key_id \in DOMAIN api_keys)
  /\ [][/\ (Called("add_api_key") /\ DOMAIN api_keys = {})
             => default_key_id' = ret'.key_id
        /\ (Called("set_default_key") /\ ret'.key_id \notin DOMAIN api_keys)
             => /\ ~ret'.result.returned
                /\ default_key_id' = default_key_id]_vars

\* a set_default_key with an id that is not registered was refused while
\* the one registered key, not the one of SecretA, was the default
C36_Witness ==
  /\ ret.op = "set_default_key" /\ ~ret.result.returned
  /\ Cardinality(DOMAIN api_keys) = 1
  /\ Len(key_order) = 1
  /\ default_key_id = Head(key_order)
  /\ default_key_id # _generate_key_id(SecretA)

\* ------------------------------------------------------------------------
\* Properties of empty payloads
\* ------------------------------------------------------------------------
\* C37: a get that reaches the file layer and finds there an entry whose
\* payload is empty reports a miss: hit = false, source 'none', no data,
\* cache_misses one higher and file_hits as before, although FileCache.get
\* found the entry and counted a hit of its own.
C37_EmptyPayloadReportedAsMiss ==
  [][GetStep =>
       LET r == ret'.result
           path == _get_file_path(r.sport, r.endpoint, r.params,
                                  _get_file_cache_strategy(r.endpoint))
       IN (/\ "file" \in StrategyLayers(r.strategy) /\ r.source # "redis"
           /\ path \in DOMAIN fs /\ FileStored(fs, path) = PayloadEmpty)
            => /\ ~r.hit /\ r.source = "none" /\ r.data = NoPayload
               /\ analytics'.cache_misses = analytics.cache_misses + 1
               /\ analytics'.file_hits = analytics.file_hits
               /\ analytics'.file_hit_count = analytics.file_hit_count + 1
               /\ analytics'.file_miss_count = analytics.file_miss_count]_vars

\* a get under the file-only strategy missed although the file of its
\* query, holding the empty payload, is on disk and FileCache counted a hit
C37_Witness ==
  /\ ret.op = "MultiCacheManager.get" /\ ret.result.strategy = "file_only"
  /\ ~ret.result.hit /\ ret.result.source = "none"
  /\ analytics.cache_misses = 1 /\ analytics.file_hit_count = 1
  /\ LET path == _get_file_path(ret.result.sport, ret.result.endpoint,
                                ret.result.params,
                                _get_file_cache_strategy(ret.result.endpoint))
     IN path \in DOMAIN fs /\ FileStored(fs, path) = PayloadEmpty

\* ------------------------------------------------------------------------
\* Properties of invalidation
\* ------------------------------------------------------------------------
\* the files kept for (sport, endpoint), whatever the params
FilesOf(files, sp, e) == {f \in DOMAIN files : f.sport = sp /\ f.endpoint = e}

\* C38: invalidate(sport, endpoint) with no params and no strategy deletes
\* from the hot cache the key of the empty params only and from the
\* persistent cache the files of every params; a get that follows it for
\* non-empty params whose hot entry can be served is answered from the
\* hot cache.
C38_InvalidateCoversParamsUnevenly ==
  [][/\ (/\ InvalidateStep /\ ret'.result.sport # None
         /\ ret'.result.endpoint # None /\ ret'.result.params = NoneParams
         /\ ret'.result.strategy = None)
          => /\ redis_db' = RedisDEL(redis_db,
                   {_generate_cache_key(ret'.result.sport, ret'.result.endpoint,
                                        NoneParams)})
             /\ FilesOf(fs', ret'.result.sport, ret'.result.endpoint) = {}
     /\ (/\ GetStep /\ ret.op = "MultiCacheManager.invalidate"
         /\ ret.result.endpoint = ret'.result.endpoint
         /\ ret.result.params = NoneParams /\ ret'.result.params # NoneParams
         /\ HotServable(ret'.result.sport, ret'.result.endpoint, ret'.result.params))
          => ret'.result.source = "redis" /\ ret'.result.hit]_vars

\* after entries for both params were stored and invalidate(NBA, "teams")
\* ran, the get for {"page": 2} was served by the hot cache while no file
\* of the endpoint is left
C38_Witness ==
  /\ ret.op = "MultiCacheManager.get" /\ ret.result.source = "redis"
  /\ ret.result.params # NoneParams
  /\ analytics.total_files = 2
  /\ FilesOf(fs, "nba", "teams") = {}
  /\ _generate_cache_key("nba", "teams", NoneParams) \notin DOMAIN redis_db

\* ------------------------------------------------------------------------
\* Properties of an ageing entry
\* ------------------------------------------------------------------------
\* the calendar month (of 30 days) a time falls in
MonthOf(t) == t \div SecondsPerMonth

\* a step that is a call of FileCache.get
FileGetStep == ret'.op = "FileCache.get" /\ now' = now /\ vars' # vars

\* the files on disk that hold the query of a path, whatever their month
FilesOfQuery(files, path) ==
  {f \in DOMAIN files : [f EXCEPT !.date_str = path.date_str] = path}

\* days between a time and now
DaysSince(t) == (now - t) \div SecondsPerDay

\* C39: a FileCache.get returns only an entry that was written in the
\* calendar month of the get: when the files of its query are all of
\* earlier months it misses, and returns no data, also while their
\* retention has not elapsed; and a file leaves the disk only in a sweep or
\* in an invalidation.
C39_EntryOfEarlierMonthNeverFound ==
  [][/\ FileGetStep =>
          /\ ret'.result.hit
               => /\ ret'.result.path \in DOMAIN fs
                  /\ MonthOf(StoredEntry(fs[ret'.result.path]).timestamp)
                       = MonthOf(now)
          /\ (\A f \in FilesOfQuery(fs, ret'.result.path) :
                MonthOf(StoredEntry(fs[f]).timestamp) < MonthOf(now))
               => /\ ~ret'.result.hit /\ ret'.result.data = NoPayload
                  /\ analytics'.file_miss_count = analytics.file_miss_count + 1
                  /\ pending' = pending
     /\ (\E f \in DOMAIN fs : f \notin DOMAIN fs')
          => ret'.op \in {"FileCache._cleanup_old_files", "FileCache.invalidate"}]_vars

\* a get missed while the file of its query, written ten days before in
\* the month before, is on disk and inside its retention of thirty days
C39_Witness ==
  /\ ret.op = "FileCache.get" /\ ~ret.result.hit
  /\ \E f \in FilesOfQuery(fs, ret.result.path) :
       /\ f.date_str < ret.result.path.date_str
       /\ DaysSince(StoredEntry(fs[f]).timestamp) = 10
       /\ ~Expired(fs, f, now)

\* C40: a sweep keeps every file that a get has read, and whose metadata
\* task has rewritten it, within the retention window of its strategy,
\* however long ago the file was set.
C40_ReadEntrySurvivesRetention ==
  [][SweepStep =>
       \A path \in DOMAIN fs :
         LET entry == StoredEntry(fs[path])
         IN (/\ entry.last_accessed >= 0
             /\ DaysSince(entry.last_accessed) <= retention_policies[path.strategy])
              => path \in DOMAIN fs']_vars

\* a sweep kept a file set forty days before, past the thirty days of
\* its strategy, that was read twenty days before
C40_Witness ==
  /\ ret.op = "FileCache._cleanup_old_files" /\ ret.result.at = now
  /\ \E path \in DOMAIN fs :
       /\ DaysSince(StoredEntry(fs[path]).timestamp) = 40
       /\ DaysSince(StoredEntry(fs[path]).last_accessed) = 20
       /\ retention_policies[path.strategy] = 30

====
